---- MODULE Spec2Model ----
(***************************************************************************)
(* Retail promotions -> Shopify metafields                                 *)
(* (src/retail_promotions_to_shopify_metafields.py).                       *)
(*                                                                         *)
(* The specifications of this module:                                      *)
(*   SpecAgg    aggregate_by_vendor folding a bounded list of rows         *)
(*   SpecGql    the retry loop of ShopifyClient.graphql                    *)
(*   SpecRun    main(): credentials, reader filter, aggregation and the    *)
(*              per-vendor reconciliation, every remote call succeeding    *)
(*   SpecFault  one run of main() in which remote calls can fail           *)
(*   SpecFaultLive  a live run of SpecFault under weak fairness            *)
(*   SpecClient one call of a ShopifyClient method made through graphql,   *)
(*              one HTTP request per step                                  *)
(*   SpecCount  tools/resilient_vendor_count.py: runs, forced              *)
(*              terminations and restarts over one progress file           *)
(*                                                                         *)
(* Optional[T] is modelled as a sequence: <<>> is None, <<v>> is v.        *)
(* A str is a sequence of one-character strings.  A date is its proleptic  *)
(* Gregorian ordinal, as in datetime.date (date - timedelta is ordinal     *)
(* arithmetic).                                                            *)
(***************************************************************************)
EXTENDS Integers, Sequences, FiniteSets, TLC

VARIABLES
  \* configuration (class Config)
  SALE_PRE_DAYS, PI_PRE_DAYS, PI_POST_DAYS,
  \* aggregate_by_vendor
  rows, idx, by_vendor,
  \* ShopifyClient.graphql
  retries, attempt, last_err, gql_pc, gql_result, http_log, sleeps,
  \* main(): credentials, configuration toggles, the clock, the database table
  SHOPIFY_SHOP, SHOPIFY_TOKEN, today, dry_run, db_only, db_table,
  \* main(): locals
  pc, vendor_plans, vi, sale_should_exist, pi_should_exist, product_cache,
  vendor_results, product_ids, pj, pending, updated_products, deleted_metafields,
  \* the shop: metafields of each product
  store,
  \* history: which run this is, the remote calls made, the metafields created,
  \* the store as the first run left it, the remote failures injected
  run, calls, created, store_after_first, fault_budget, failures,
  \* a ShopifyClient method: the call, its position, its locals, the graphql
  \* calls it has made, what it returned, and what the shop holds
  method, m_pc, cursor, has_next, m_ids, gql_calls, m_result, remote,
  \* resilient_vendor_count: its locals, the progress file, the forced
  \* terminations so far
  vendor_counts, total_products, progress_file, kills

cfgVars == <<SALE_PRE_DAYS, PI_PRE_DAYS, PI_POST_DAYS>>
aggVars == <<rows, idx, by_vendor>>
gqlVars == <<retries, attempt, last_err, gql_pc, gql_result, http_log, sleeps>>
envVars == <<SHOPIFY_SHOP, SHOPIFY_TOKEN, today, dry_run, db_only, db_table, fault_budget>>
mainVars == <<pc, vendor_plans, vi, sale_should_exist, pi_should_exist, product_cache,
              vendor_results, product_ids, pj, pending, updated_products,
              deleted_metafields>>
histVars == <<run, calls, created, store_after_first, failures>>
runVars == <<envVars, mainVars, store, histVars>>
cliVars == <<method, m_pc, cursor, has_next, m_ids, gql_calls, m_result, remote,
             vendor_counts, total_products, progress_file, kills>>
vars == <<cfgVars, aggVars, gqlVars, runVars, cliVars>>

-----------------------------------------------------------------------------
(* Optional values *)

None == <<>>
Some(v) == <<v>>
Val(o) == o[1]

\* Python `a or b` on Optional[date] (a date is always truthy)
OrElse(a, b) == IF a # None THEN a ELSE b

Min2(a, b) == IF a <= b THEN a ELSE b
Max2(a, b) == IF a >= b THEN a ELSE b

-----------------------------------------------------------------------------
(* Strings: normalize() *)

UpperChars == <<"A","B","C","D","E","F","G","H","I","J","K","L","M",
                "N","O","P","Q","R","S","T","U","V","W","X","Y","Z">>
LowerChars == <<"a","b","c","d","e","f","g","h","i","j","k","l","m",
                "n","o","p","q","r","s","t","u","v","w","x","y","z">>

IsSpace(c) == c \in {" ", "\t", "\n"}

ToLower ==
  [c \in {UpperChars[i] : i \in 1..Len(UpperChars)} |->
     LowerChars[CHOOSE i \in 1..Len(UpperChars) : UpperChars[i] = c]]

LowerChar(c) == IF c \in DOMAIN ToLower THEN ToLower[c] ELSE c

\* str.lower()
LowerStr(s) == [i \in 1..Len(s) |-> LowerChar(s[i])]

RECURSIVE LStrip(_)
LStrip(s) == IF s # <<>> /\ IsSpace(Head(s)) THEN LStrip(Tail(s)) ELSE s

RECURSIVE RStrip(_)
RStrip(s) ==
  IF s # <<>> /\ IsSpace(s[Len(s)]) THEN RStrip(SubSeq(s, 1, Len(s) - 1)) ELSE s

\* str.strip()
Strip(s) == RStrip(LStrip(s))

\* str.split(): the maximal runs of non-whitespace
RECURSIVE SplitWs(_, _, _)
SplitWs(s, cur, acc) ==
  IF s = <<>> THEN (IF cur = <<>> THEN acc ELSE Append(acc, cur))
  ELSE IF IsSpace(Head(s))
       THEN SplitWs(Tail(s), <<>>, IF cur = <<>> THEN acc ELSE Append(acc, cur))
       ELSE SplitWs(Tail(s), Append(cur, Head(s)), acc)

\* " ".join(words)
RECURSIVE JoinSp(_)
JoinSp(ws) ==
  IF ws = <<>> THEN <<>>
  ELSE IF Len(ws) = 1 THEN ws[1]
  ELSE ws[1] \o <<" ">> \o JoinSp(Tail(ws))

\* a deviating variant of normalize: lower-cases but keeps the whitespace as it is
NormalizeNoCollapse(s) == LowerStr(s)

\* normalize(s): " ".join((s or "").strip().lower().split())
Normalize(s) == JoinSp(SplitWs(LowerStr(Strip(s)), <<>>, <<>>))

SALE == <<"s","a","l","e">>
PRICE_INCREASE == <<"p","r","i","c","e"," ","i","n","c","r","e","a","s","e">>

-----------------------------------------------------------------------------
(* Dates: datetime.date as ordinal, timedelta as a number of days *)

IsLeap(yr) == yr % 4 = 0 /\ (yr % 100 # 0 \/ yr % 400 = 0)

DaysInMonth(yr, m) ==
  IF m = 2 THEN (IF IsLeap(yr) THEN 29 ELSE 28)
  ELSE IF m \in {4, 6, 9, 11} THEN 30 ELSE 31

RECURSIVE DaysBeforeMonth(_, _)
DaysBeforeMonth(yr, m) ==
  IF m = 1 THEN 0 ELSE DaysBeforeMonth(yr, m - 1) + DaysInMonth(yr, m - 1)

DaysBeforeYear(yr) ==
  (yr - 1) * 365 + ((yr - 1) \div 4) - ((yr - 1) \div 100) + ((yr - 1) \div 400)

\* date(yr, m, d).toordinal()
Date(yr, m, d) == DaysBeforeYear(yr) + DaysBeforeMonth(yr, m) + d

ModelYears == {2023, 2024, 2025}

\* date.isoformat(): the "YYYY-MM-DD" text of an ordinal, as <<YYYY, MM, DD>>
IsoFormat(n) ==
  LET yr  == CHOOSE c \in ModelYears : DaysBeforeYear(c) < n /\ n <= DaysBeforeYear(c + 1)
      doy == n - DaysBeforeYear(yr)
      mo  == CHOOSE c \in 1..12 :
               DaysBeforeMonth(yr, c) < doy
               /\ doy <= DaysBeforeMonth(yr, c) + DaysInMonth(yr, c)
  IN <<yr, mo, doy - DaysBeforeMonth(yr, mo)>>

-----------------------------------------------------------------------------
(* Data models: RetailPromoRow, VendorPlan *)

Row(v, cid, et, s, e) ==
  [vendor |-> v, collection_id |-> cid, entry_type |-> et,
   start_date |-> s, end_date |-> e]

\* VendorPlan(vendor=v) after __post_init__
NewPlan(v) ==
  [vendor |-> v, collection_ids |-> <<>>,
   sale_display_start |-> None, sale_display_end |-> None,
   pi_display_start |-> None, pi_display_end |-> None,
   sale_real_start |-> None, sale_real_end |-> None,
   pi_real_start |-> None, pi_real_end |-> None]

SeqToSet(s) == {s[i] : i \in 1..Len(s)}

-----------------------------------------------------------------------------
(* Window Calculator: compute_display_window *)

\* a deviating variant: the Sale window falls back to start + z when the end is missing
\* and opens on the start date itself
ComputeDisplayWindowSaleLikePi(row, x, y, z) ==
  LET t == Normalize(row.entry_type) IN
  IF t = SALE
  THEN <<row.start_date,
         IF row.end_date # None THEN Val(row.end_date) ELSE row.start_date + z>>
  ELSE IF t = PRICE_INCREASE
  THEN <<row.start_date - y,
         IF row.end_date # None THEN Val(row.end_date) ELSE row.start_date + z>>
  ELSE <<row.start_date, row.start_date>>

\* a deviating variant: the Price Increase window uses the Sale offset and no fallback
ComputeDisplayWindowPiLikeSale(row, x, y, z) ==
  LET t == Normalize(row.entry_type) IN
  IF t = SALE
  THEN <<row.start_date - x, Val(OrElse(row.end_date, Some(row.start_date)))>>
  ELSE IF t = PRICE_INCREASE
  THEN <<row.start_date - x, Val(OrElse(row.end_date, Some(row.start_date)))>>
  ELSE <<row.start_date, row.start_date>>

ComputeDisplayWindow(row, x, y, z) ==
  LET t == Normalize(row.entry_type) IN
  IF t = SALE
  THEN <<row.start_date - x, Val(OrElse(row.end_date, Some(row.start_date)))>>
  ELSE IF t = PRICE_INCREASE
  THEN <<row.start_date - y,
         IF row.end_date # None THEN Val(row.end_date) ELSE row.start_date + z>>
  ELSE <<row.start_date, row.start_date>>

-----------------------------------------------------------------------------
(* Vendor Aggregator: aggregate_by_vendor *)

\* a deviating variant: the last row wins
MergeMinLastWins(cur, d) == Some(d)

\* `d if cur is None else min(cur, d)`
MergeMin(cur, d) == IF cur = None THEN Some(d) ELSE Some(Min2(Val(cur), d))

\* a deviating variant: the last row wins
MergeMaxLastWins(cur, d) == Some(d)

\* `d if cur is None else max(cur, d)`
MergeMax(cur, d) == IF cur = None THEN Some(d) ELSE Some(Max2(Val(cur), d))

\* real_end = r.end_date or r.start_date
SaleRealEnd(r) == Val(OrElse(r.end_date, Some(r.start_date)))

\* a deviating variant: a missing end is filled with the display fallback start + z
MergePiRealEndSynth(cur, r, z) ==
  MergeMax(cur, IF r.end_date # None THEN Val(r.end_date) ELSE r.start_date + z)

\* `if r.end_date is not None: w.pi_real_end = ...`
MergePiRealEnd(cur, r, z) ==
  IF r.end_date # None THEN MergeMax(cur, Val(r.end_date)) ELSE cur

\* `if r.collection_id and r.collection_id not in w.collection_ids: append`
AddCollectionId(ids, cid) ==
  IF cid # None /\ Val(cid) # <<>> /\ Val(cid) \notin SeqToSet(ids)
  THEN Append(ids, Val(cid)) ELSE ids

\* a deviating variant: a Sale row also stretches the Price Increase display end
FoldIntoPlanSaleTouchesPi(w, r, x, y, z) ==
  LET w1 == [w EXCEPT !.collection_ids = AddCollectionId(@, r.collection_id)]
      t  == Normalize(r.entry_type)
      dw == ComputeDisplayWindow(r, x, y, z)
  IN IF t = SALE
     THEN [w1 EXCEPT !.sale_display_start = MergeMin(@, dw[1]),
                     !.sale_display_end   = MergeMax(@, dw[2]),
                     !.sale_real_start    = MergeMin(@, r.start_date),
                     !.sale_real_end      = MergeMax(@, SaleRealEnd(r)),
                     !.pi_display_end     = MergeMax(@, dw[2])]
     ELSE IF t = PRICE_INCREASE
     THEN [w1 EXCEPT !.pi_display_start = MergeMin(@, dw[1]),
                     !.pi_display_end   = MergeMax(@, dw[2]),
                     !.pi_real_start    = MergeMin(@, r.start_date),
                     !.pi_real_end      = MergePiRealEnd(@, r, z)]
     ELSE w1

\* the body of the loop for one row, on the plan w of the row's vendor
FoldIntoPlan(w, r, x, y, z) ==
  LET w1 == [w EXCEPT !.collection_ids = AddCollectionId(@, r.collection_id)]
      t  == Normalize(r.entry_type)
      dw == ComputeDisplayWindow(r, x, y, z)
  IN IF t = SALE
     THEN [w1 EXCEPT !.sale_display_start = MergeMin(@, dw[1]),
                     !.sale_display_end   = MergeMax(@, dw[2]),
                     !.sale_real_start    = MergeMin(@, r.start_date),
                     !.sale_real_end      = MergeMax(@, SaleRealEnd(r))]
     ELSE IF t = PRICE_INCREASE
     THEN [w1 EXCEPT !.pi_display_start = MergeMin(@, dw[1]),
                     !.pi_display_end   = MergeMax(@, dw[2]),
                     !.pi_real_start    = MergeMin(@, r.start_date),
                     !.pi_real_end      = MergePiRealEnd(@, r, z)]
     ELSE w1

\* by_vendor is a dict in insertion order: a sequence of plans, one per key
HasKey(bv, v) == \E i \in 1..Len(bv) : bv[i].vendor = v
KeyIndex(bv, v) == CHOOSE i \in 1..Len(bv) : bv[i].vendor = v

\* `w = by_vendor.get(v) or VendorPlan(vendor=v)`
GetPlan(bv, v) == IF HasKey(bv, v) THEN bv[KeyIndex(bv, v)] ELSE NewPlan(v)

\* one iteration of `for r in rows`, ending with `by_vendor[v] = w`
FoldRow(bv, r, x, y, z) ==
  LET w == FoldIntoPlan(GetPlan(bv, r.vendor), r, x, y, z) IN
  IF HasKey(bv, r.vendor)
  THEN [bv EXCEPT ![KeyIndex(bv, r.vendor)] = w]
  ELSE Append(bv, w)

\* the whole function: list(by_vendor.values())
RECURSIVE FoldRows(_, _, _, _, _)
FoldRows(bv, rs, x, y, z) ==
  IF rs = <<>> THEN bv ELSE FoldRows(FoldRow(bv, Head(rs), x, y, z), Tail(rs), x, y, z)

AggregateByVendor(rs, x, y, z) == FoldRows(<<>>, rs, x, y, z)


-----------------------------------------------------------------------------
(* Reconciler: the per-vendor decision and the set payload (pure parts) *)

MF_NAMESPACE  == "custom"
MF_SALE_START == "promo_sale_start_date"
MF_SALE_END   == "promo_sale_end_date"
MF_PI_START   == "promo_pi_start_date"
MF_PI_END     == "promo_pi_end_date"
MF_KEYS       == {MF_SALE_START, MF_SALE_END, MF_PI_START, MF_PI_END}

\* a deviating variant: the display end is exclusive
InWindowEndExclusive(ds, de, day) ==
  ds # None /\ de # None /\ Val(ds) <= day /\ day < Val(de)

\* `ds is not None and de is not None and ds <= day <= de`
InWindow(ds, de, day) ==
  ds # None /\ de # None /\ Val(ds) <= day /\ day <= Val(de)

SaleShouldExist(w, day) == InWindow(w.sale_display_start, w.sale_display_end, day)
PiShouldExist(w, day)   == InWindow(w.pi_display_start, w.pi_display_end, day)

BuildDateMetafield(owner_id, namespace, key, d) ==
  [ownerId |-> owner_id, namespace |-> namespace, key |-> key,
   type |-> "date", value |-> IsoFormat(d)]

\* a deviating variant: the payload is built from the display window
BuildToSetFromDisplay(pid, w, sale_se, pi_se) ==
  (IF sale_se /\ w.sale_real_start # None /\ w.sale_real_end # None
   THEN << BuildDateMetafield(pid, MF_NAMESPACE, MF_SALE_START, Val(w.sale_display_start)),
           BuildDateMetafield(pid, MF_NAMESPACE, MF_SALE_END, Val(w.sale_display_end)) >>
   ELSE <<>>)
  \o
  (IF pi_se /\ w.pi_real_start # None
   THEN << BuildDateMetafield(pid, MF_NAMESPACE, MF_PI_START, Val(w.pi_display_start)),
           BuildDateMetafield(pid, MF_NAMESPACE, MF_PI_END, Val(w.pi_display_end)) >>
   ELSE <<>>)

\* a deviating variant: a missing real end is replaced by the real start
BuildToSetPiEndAlways(pid, w, sale_se, pi_se) ==
  (IF sale_se /\ w.sale_real_start # None /\ w.sale_real_end # None
   THEN << BuildDateMetafield(pid, MF_NAMESPACE, MF_SALE_START, Val(w.sale_real_start)),
           BuildDateMetafield(pid, MF_NAMESPACE, MF_SALE_END, Val(w.sale_real_end)) >>
   ELSE <<>>)
  \o
  (IF pi_se /\ w.pi_real_start # None
   THEN << BuildDateMetafield(pid, MF_NAMESPACE, MF_PI_START, Val(w.pi_real_start)),
           BuildDateMetafield(pid, MF_NAMESPACE, MF_PI_END,
                              Val(OrElse(w.pi_real_end, w.pi_real_start))) >>
   ELSE <<>>)

\* the list to_set built for one product (src lines 684-692)
BuildToSet(pid, w, sale_se, pi_se) ==
  (IF sale_se /\ w.sale_real_start # None /\ w.sale_real_end # None
   THEN << BuildDateMetafield(pid, MF_NAMESPACE, MF_SALE_START, Val(w.sale_real_start)),
           BuildDateMetafield(pid, MF_NAMESPACE, MF_SALE_END, Val(w.sale_real_end)) >>
   ELSE <<>>)
  \o
  (IF pi_se /\ w.pi_real_start # None
   THEN << BuildDateMetafield(pid, MF_NAMESPACE, MF_PI_START, Val(w.pi_real_start)) >>
        \o (IF w.pi_real_end # None
            THEN << BuildDateMetafield(pid, MF_NAMESPACE, MF_PI_END, Val(w.pi_real_end)) >>
            ELSE <<>>)
   ELSE <<>>)

\* a deviating variant: the four keys are always looked up
KeysToCheckAll(sale_se, pi_se) ==
  <<MF_SALE_START, MF_SALE_END, MF_PI_START, MF_PI_END>>

\* keys_to_check (src lines 703-707)
KeysToCheck(sale_se, pi_se) ==
  (IF ~sale_se THEN <<MF_SALE_START, MF_SALE_END>> ELSE <<>>)
  \o (IF ~pi_se THEN <<MF_PI_START, MF_PI_END>> ELSE <<>>)

-----------------------------------------------------------------------------
(* The shop: products, their vendor field, the collections *)

Acme == <<"A","c","m","e">>
ACME == <<"A","C","M","E">>
Bolt == <<"B","o","l","t">>

Coll1 == <<"7","1">>
Coll2 == <<"7","2">>

Products == {"p1", "p2", "p3"}
AllProducts == <<"p1", "p2", "p3">>

ProductVendor ==
  [p \in Products |-> IF p = "p1" THEN Acme ELSE IF p = "p2" THEN ACME ELSE Bolt]

GidPrefix == <<"gid://shopify/Collection/">>

\* ShopifyClient.to_collection_gid
ToCollectionGid(collection_id) ==
  LET cid == Strip(collection_id) IN
  IF cid # <<>> /\ Head(cid) = Head(GidPrefix) THEN cid ELSE GidPrefix \o cid

\* the products of a collection, in the order the shop lists them; an unknown
\* id answers `collection: null`, which ends the enumeration with no ids
CollectionProducts(gid) ==
  IF gid = GidPrefix \o Coll1 THEN <<"p1", "p2">>
  ELSE IF gid = GidPrefix \o Coll2 THEN <<"p2", "p3">>
  ELSE <<>>

\* list_product_ids_in_collection, all pages
ListProductIdsInCollection(collection_id) ==
  CollectionProducts(ToCollectionGid(collection_id))

\* list_product_ids_by_vendor, all pages: the nodes the search returns,
\* kept when normalize(node.vendor) == normalize(vendor)
ListProductIdsByVendor(vendor) ==
  LET Match(p) == Normalize(ProductVendor[p]) = Normalize(vendor)
  IN SelectSeq(AllProducts, Match)

\* the count the REST endpoint answers
RestCountInCollection(collection_id) ==
  Len(CollectionProducts(ToCollectionGid(collection_id)))
RestCountByVendor(vendor) ==
  Cardinality({p \in Products : ProductVendor[p] = vendor})

NoMetafields == [p \in Products |-> [k \in MF_KEYS |-> None]]

\* every product carries the four keys with an old value
StaleMetafields == [p \in Products |-> [k \in MF_KEYS |-> Some(<<2024, 1, 1>>)]]

\* metafieldsSet: upsert every entry
RECURSIVE ApplySet(_, _)
ApplySet(st, ms) ==
  IF ms = <<>> THEN st
  ELSE ApplySet([st EXCEPT ![Head(ms).ownerId][Head(ms).key] = Some(Head(ms).value)],
                Tail(ms))

\* the id of the metafield `key` of product pid
MetafieldId(pid, key) == <<pid, key>>

\* metafieldDelete(id)
ApplyDelete(st, mid) == [st EXCEPT ![mid[1]][mid[2]] = None]

\* a deviating variant: only the first key found is looked at
ExistingIdsFirstOnly(st, pid, keys) ==
  LET found == SelectSeq(keys, LAMBDA k : st[pid][k] # None)
  IN IF found = <<>> THEN <<>> ELSE <<MetafieldId(pid, found[1])>>

\* get_metafield_ids followed by `for k, mid in existing.items(): if mid:`
\* the ids to delete, in the order of `keys`
ExistingIds(st, pid, keys) ==
  LET found == SelectSeq(keys, LAMBDA k : st[pid][k] # None)
  IN [i \in 1..Len(found) |-> MetafieldId(pid, found[i])]

-----------------------------------------------------------------------------
(* main(): idle values while another specification runs *)

RunIdle ==
  /\ SHOPIFY_SHOP = <<>> /\ SHOPIFY_TOKEN = <<>>
  /\ today = 0 /\ dry_run = TRUE /\ db_only = TRUE /\ db_table = <<>>
  /\ fault_budget = 0
  /\ pc = "idle" /\ vendor_plans = <<>> /\ vi = 0
  /\ sale_should_exist = FALSE /\ pi_should_exist = FALSE
  /\ product_cache = <<>> /\ vendor_results = <<>> /\ product_ids = <<>>
  /\ pj = 0 /\ pending = <<>> /\ updated_products = 0 /\ deleted_metafields = 0
  /\ store = NoMetafields
  /\ run = 0 /\ calls = <<>> /\ created = {} /\ store_after_first = NoMetafields
  /\ failures = 0

-----------------------------------------------------------------------------
(* Inputs of the aggregation check *)

MaxRows == 2

ET_Sale      == <<"S","a","l","e">>
ET_SaleVar   == <<" ","S","A","L","E"," ">>
ET_PI        == <<"P","r","i","c","e"," ","I","n","c","r","e","a","s","e">>
ET_PIVar     == <<"p","r","i","c","e"," "," ","I","N","C","R","E","A","S","E">>
ET_Other     == <<"B","O","G","O">>
EntryTypes   == {ET_Sale, ET_SaleVar, ET_PI, ET_PIVar, ET_Other}

Jun10 == Date(2024, 6, 10)
Jun12 == Date(2024, 6, 12)
Jun20 == Date(2024, 6, 20)
Jun25 == Date(2024, 6, 25)

StartDates == {Jun10, Jun12}
EndDates   == {None, Some(Jun20), Some(Jun25)}

\* (X, Y, Z): the defaults of Config and two other non-negative settings
OffsetChoices == {<<5, 15, 5>>, <<0, 0, 0>>, <<1, 2, 3>>}

\* every (start, end) for the two types as the database spells them; the
\* other spellings, an unknown type, the collection ids and a second vendor
\* each on a few of them
RowPool ==
  {Row(Acme, None, et, s, e) : et \in {ET_Sale, ET_PI}, s \in StartDates, e \in EndDates}
  \cup {Row(Acme, None, et, Jun10, None) : et \in {ET_SaleVar, ET_PIVar}}
  \cup {Row(Acme, None, et, Jun12, Some(Jun25)) : et \in {ET_SaleVar, ET_PIVar}}
  \cup {Row(Acme, None, ET_Other, Jun10, Some(Jun20))}
  \cup {Row(Acme, Some(c), ET_Sale, Jun10, Some(Jun20)) : c \in {Coll1, Coll2}}
  \cup {Row(ACME, None, et, Jun10, e) : et \in {ET_Sale, ET_PI}, e \in {None, Some(Jun25)}}

RowLists == UNION {[1..n -> RowPool] : n \in 0..MaxRows}

-----------------------------------------------------------------------------
(* ShopifyClient methods and the vendor counter: idle values while another
   specification runs *)

NoRemote ==
  [products |-> <<>>, collection |-> FALSE, user_errors |-> <<>>,
   quoted |-> <<>>, unquoted |-> <<>>]

ClientIdle ==
  /\ method = [name |-> "none", arg |-> <<>>] /\ m_pc = "idle"
  /\ cursor = <<>> /\ has_next = FALSE /\ m_ids = <<>> /\ gql_calls = <<>>
  /\ m_result = <<>> /\ remote = NoRemote
  /\ vendor_counts = <<>> /\ total_products = 0 /\ progress_file = <<>> /\ kills = 0

-----------------------------------------------------------------------------
(* graphql: idle values while another specification runs *)

GqlIdle ==
  /\ retries = 0 /\ attempt = 0 /\ last_err = None /\ gql_pc = "idle"
  /\ gql_result = None /\ http_log = <<>> /\ sleeps = <<>>

-----------------------------------------------------------------------------
(* SpecAgg: aggregate_by_vendor, one row per step *)

InitAgg ==
  /\ \E o \in OffsetChoices :
       SALE_PRE_DAYS = o[1] /\ PI_PRE_DAYS = o[2] /\ PI_POST_DAYS = o[3]
  /\ rows \in RowLists
  /\ idx = 0
  /\ by_vendor = <<>>
  /\ GqlIdle
  /\ RunIdle
  /\ ClientIdle

\* one iteration of `for r in rows` (src lines 281-311)
AggFoldRow ==
  /\ idx < Len(rows)
  /\ by_vendor' = FoldRow(by_vendor, rows[idx + 1],
                          SALE_PRE_DAYS, PI_PRE_DAYS, PI_POST_DAYS)
  /\ idx' = idx + 1
  /\ UNCHANGED <<rows, cfgVars, cliVars, gqlVars, runVars>>

NextAgg == AggFoldRow

SpecAgg == InitAgg /\ [][NextAgg]_vars


-----------------------------------------------------------------------------
(* Properties of the Window Calculator and the Vendor Aggregator (SpecAgg) *)

\* the entry types of the inputs, classified by hand
SaleTypes == {ET_Sale, ET_SaleVar}
PiTypes   == {ET_PI, ET_PIVar}

SetMax(S) == CHOOSE m \in S : \A e \in S : e <= m
SetMin(S) == CHOOSE m \in S : \A e \in S : m <= e

\* the rows folded so far that belong to vendor v and have a type in T
Folded(v, T) ==
  {rows[i] : i \in {j \in 1..idx : rows[j].vendor = v /\ rows[j].entry_type \in T}}

EndOrStart(r) == IF r.end_date # None THEN Val(r.end_date) ELSE r.start_date

\* C7: for every row whose entry type normalizes to Sale (checked on the row
\* just folded) the display window is (start - X, end if present else start); the Sale real end folded into
\* the plan uses the same fallback, so a Sale category with at least one row
\* has a concrete real end, equal to its display end.
C7_SaleWindow ==
  /\ \A i \in {idx} \cap (1..Len(rows)) :
       rows[i].entry_type \in SaleTypes =>
         ComputeDisplayWindow(rows[i], SALE_PRE_DAYS, PI_PRE_DAYS, PI_POST_DAYS)
           = <<rows[i].start_date - SALE_PRE_DAYS, EndOrStart(rows[i])>>
  /\ \A k \in 1..Len(by_vendor) :
       LET w == by_vendor[k]
           S == Folded(w.vendor, SaleTypes)
       IN S # {} =>
            /\ w.sale_real_end # None
            /\ w.sale_real_end = Some(SetMax({EndOrStart(r) : r \in S}))
            /\ w.sale_display_end = w.sale_real_end
            /\ w.sale_display_start
                 = Some(SetMin({r.start_date : r \in S}) - SALE_PRE_DAYS)

\* a Sale row written in another case, without an end date, has been folded
C7_Witness ==
  \E i \in 1..idx :
    /\ rows[i].entry_type = ET_SaleVar /\ rows[i].end_date = None
    /\ SALE_PRE_DAYS = 5
    /\ GetPlan(by_vendor, rows[i].vendor).sale_real_end # None

ScenarioB == <<Row(Acme, None, ET_PI, Date(2024, 6, 10), None)>>

\* C8: for every row whose entry type normalizes to Price Increase (checked
\* on the row just folded) the display window is (start - Y, end if present else start + Z).  Example:
\* start 2024-06-10, no end, Y = 15, Z = 5, today 2024-06-12 gives the window
\* 2024-05-26 .. 2024-06-15, should exist, published start 2024-06-10 and no
\* published end.
C8_PiWindow ==
  /\ \A i \in {idx} \cap (1..Len(rows)) :
       rows[i].entry_type \in PiTypes =>
         ComputeDisplayWindow(rows[i], SALE_PRE_DAYS, PI_PRE_DAYS, PI_POST_DAYS)
           = <<rows[i].start_date - PI_PRE_DAYS,
               IF rows[i].end_date # None THEN Val(rows[i].end_date)
               ELSE rows[i].start_date + PI_POST_DAYS>>
  /\ (rows = ScenarioB /\ idx = 1 /\ PI_PRE_DAYS = 15 /\ PI_POST_DAYS = 5) =>
       LET w == by_vendor[1]
           day == Date(2024, 6, 12)
           to_set == BuildToSet("p", w, SaleShouldExist(w, day), PiShouldExist(w, day))
       IN /\ w.pi_display_start = Some(Date(2024, 5, 26))
          /\ w.pi_display_end = Some(Date(2024, 6, 15))
          /\ PiShouldExist(w, day)
          /\ Len(to_set) = 1
          /\ to_set[1].key = MF_PI_START
          /\ to_set[1].value = <<2024, 6, 10>>

\* the example row has been folded under Y = 15, Z = 5
C8_Witness ==
  /\ rows = ScenarioB /\ idx = 1 /\ PI_PRE_DAYS = 15 /\ PI_POST_DAYS = 5
  /\ by_vendor[1].pi_display_end # None

\* C9: after any sequence of rows a vendor's pi_real_end is null when no
\* Price Increase row of the vendor supplied an end date (pi_display_end is
\* concrete all the same), and otherwise is the maximum of the supplied ends.
C9_PiRealEnd ==
  \A k \in 1..Len(by_vendor) :
    LET w == by_vendor[k]
        S == Folded(w.vendor, PiTypes)
        E == {Val(r.end_date) : r \in {q \in S : q.end_date # None}}
    IN /\ S # {} => w.pi_display_end # None
       /\ E = {} => w.pi_real_end = None
       /\ E # {} => w.pi_real_end = Some(SetMax(E))

\* only open-ended Price Increase rows have been folded for some vendor
C9_Witness ==
  \E k \in 1..Len(by_vendor) :
    LET S == Folded(by_vendor[k].vendor, PiTypes) IN
    /\ S # {} /\ \A r \in S : r.end_date = None
    /\ by_vendor[k].pi_display_end # None

AggDone == idx = Len(rows)

OneVendor == \A i \in 1..Len(rows) : rows[i].vendor = rows[1].vendor

Perms(n) == {f \in [1..n -> 1..n] : \A i, j \in 1..n : f[i] = f[j] => i = j}

Permuted(f) == [i \in 1..Len(rows) |-> rows[f[i]]]

\* C10 as stated: every permutation of one vendor's rows yields the same
\* VendorPlan, collection_ids included.
C10_OrderIndependent ==
  (AggDone /\ OneVendor) =>
    \A f \in Perms(Len(rows)) :
      AggregateByVendor(Permuted(f), SALE_PRE_DAYS, PI_PRE_DAYS, PI_POST_DAYS)
        = by_vendor

IdsAsSet(bv) == [k \in 1..Len(bv) |-> [bv[k] EXCEPT !.collection_ids = SeqToSet(@)]]

\* C10 amended: every permutation of one vendor's rows yields the same eight
\* window fields and the same set of collection ids; the order of the
\* collection_ids list is the first-seen order of the rows.
C10_OrderIndependentUpToIdOrder ==
  (AggDone /\ OneVendor) =>
    \A f \in Perms(Len(rows)) :
      IdsAsSet(AggregateByVendor(Permuted(f), SALE_PRE_DAYS, PI_PRE_DAYS, PI_POST_DAYS))
        = IdsAsSet(by_vendor)

\* two rows of one vendor with different ends and different collection ids
\* or dates have been folded
C10_Witness ==
  /\ AggDone /\ OneVendor /\ Len(rows) >= 2
  /\ rows[1].entry_type \in SaleTypes /\ rows[2].entry_type \in SaleTypes
  /\ rows[1].end_date # None /\ rows[2].end_date # None
  /\ rows[1].end_date # rows[2].end_date
  /\ rows[1].start_date # rows[2].start_date

\* the first folded row whose vendor equals v when letter case is ignored
FirstSeen(v) ==
  rows[SetMin({i \in 1..idx : LowerStr(rows[i].vendor) = LowerStr(v)})].vendor

\* C11: rows whose vendor names differ only in letter case are folded into a
\* single VendorPlan that keeps the first-seen casing, so the plans hold one
\* plan per case-insensitive vendor name.
C11_VendorCaseInsensitive ==
  \A j, k \in 1..Len(by_vendor) :
    /\ LowerStr(by_vendor[j].vendor) = LowerStr(by_vendor[k].vendor) => j = k
    /\ by_vendor[k].vendor = FirstSeen(by_vendor[k].vendor)

\* the start bound b2 is b or earlier; the end bound b2 is b or later; a
\* bound that is present stays present
StartWidened(b, b2) == b = None \/ (b2 # None /\ Val(b2) <= Val(b))
EndWidened(b, b2)   == b = None \/ (b2 # None /\ Val(b2) >= Val(b))

\* the display end a Price Increase row supplies
PiDisplayEndOf(r) ==
  IF r.end_date # None THEN Val(r.end_date) ELSE r.start_date + PI_POST_DAYS

\* the bound is the minimum (maximum) of the values V the rows supplied,
\* None when no row supplied one
IsMinOf(b, V) == IF V = {} THEN b = None ELSE b = Some(SetMin(V))
IsMaxOf(b, V) == IF V = {} THEN b = None ELSE b = Some(SetMax(V))

\* C12: every fold step only widens the windows of every plan (no start
\* bound increases, no end bound decreases, none is reset to null), and once
\* all rows are folded each start bound is the minimum and each end bound the
\* maximum of the values the category's rows supplied; a Price Increase row
\* without an end supplies no real end.
C12_MonotoneWidening ==
  /\ [][\A k \in 1..Len(by_vendor) :
         LET w == by_vendor[k]
             w2 == by_vendor'[k]
         IN /\ w2.vendor = w.vendor
            /\ StartWidened(w.sale_display_start, w2.sale_display_start)
            /\ StartWidened(w.sale_real_start, w2.sale_real_start)
            /\ StartWidened(w.pi_display_start, w2.pi_display_start)
            /\ StartWidened(w.pi_real_start, w2.pi_real_start)
            /\ EndWidened(w.sale_display_end, w2.sale_display_end)
            /\ EndWidened(w.sale_real_end, w2.sale_real_end)
            /\ EndWidened(w.pi_display_end, w2.pi_display_end)
            /\ EndWidened(w.pi_real_end, w2.pi_real_end)]_vars
  /\ [](AggDone =>
        \A k \in 1..Len(by_vendor) :
          LET w == by_vendor[k]
              S == Folded(w.vendor, SaleTypes)
              P == Folded(w.vendor, PiTypes)
          IN /\ IsMinOf(w.sale_display_start, {r.start_date - SALE_PRE_DAYS : r \in S})
             /\ IsMinOf(w.sale_real_start, {r.start_date : r \in S})
             /\ IsMinOf(w.pi_display_start, {r.start_date - PI_PRE_DAYS : r \in P})
             /\ IsMinOf(w.pi_real_start, {r.start_date : r \in P})
             /\ IsMaxOf(w.sale_display_end, {EndOrStart(r) : r \in S})
             /\ IsMaxOf(w.sale_real_end, {EndOrStart(r) : r \in S})
             /\ IsMaxOf(w.pi_display_end, {PiDisplayEndOf(r) : r \in P})
             /\ IsMaxOf(w.pi_real_end,
                        {Val(r.end_date) : r \in {q \in P : q.end_date # None}}))

\* a Price Increase row without an end and with a later start has been folded
\* after one of the same vendor that ends on 2024-06-25: the real end is kept
\* and the real start is the earlier one
C12_Witness ==
  /\ idx = 2 /\ Len(by_vendor) = 1
  /\ rows[1].entry_type \in PiTypes /\ rows[2].entry_type \in PiTypes
  /\ rows[1].end_date = Some(Jun25) /\ rows[2].end_date = None
  /\ rows[1].start_date < rows[2].start_date
  /\ by_vendor[1].pi_real_end = Some(Jun25)
  /\ by_vendor[1].pi_real_start = Some(rows[1].start_date)

SaleFields(w) ==
  <<w.sale_display_start, w.sale_display_end, w.sale_real_start, w.sale_real_end>>
PiFields(w) ==
  <<w.pi_display_start, w.pi_display_end, w.pi_real_start, w.pi_real_end>>

\* the plan at position k before the step: a vendor seen for the first time
\* starts from eight null fields
PlanBefore(k) ==
  IF k <= Len(by_vendor) THEN by_vendor[k]
  ELSE [collection_ids |-> <<>>,
        sale_display_start |-> None, sale_display_end |-> None,
        sale_real_start |-> None, sale_real_end |-> None,
        pi_display_start |-> None, pi_display_end |-> None,
        pi_real_start |-> None, pi_real_end |-> None]

\* C23: a fold step of a Sale row leaves the four Price Increase fields of
\* the row's vendor as they were, a fold step of a Price Increase row leaves
\* the four Sale fields as they were, and every plan of another vendor is
\* left unchanged.
C23_CategoriesIndependent ==
  [][idx < Len(rows) =>
       LET r == rows[idx + 1] IN
       /\ \A k \in 1..Len(by_vendor) :
            by_vendor[k].vendor # r.vendor => by_vendor'[k] = by_vendor[k]
       /\ \A k \in 1..Len(by_vendor') :
            by_vendor'[k].vendor = r.vendor =>
              /\ r.entry_type \in SaleTypes =>
                   PiFields(by_vendor'[k]) = PiFields(PlanBefore(k))
              /\ r.entry_type \in PiTypes =>
                   SaleFields(by_vendor'[k]) = SaleFields(PlanBefore(k))
       /\ Len(by_vendor') \in {Len(by_vendor), Len(by_vendor) + 1}
    ]_vars

\* a Sale row has been folded into a plan that already held an open-ended
\* Price Increase window, which is still the one its own row gave
C23_Witness ==
  /\ idx = 2 /\ Len(by_vendor) = 1
  /\ rows[1].entry_type \in PiTypes /\ rows[2].entry_type \in SaleTypes
  /\ rows[2].end_date # None /\ rows[1].end_date = None
  /\ by_vendor[1].sale_display_end = rows[2].end_date
  /\ by_vendor[1].pi_display_end = Some(rows[1].start_date + PI_POST_DAYS)
  /\ by_vendor[1].pi_real_end = None

\* C28: for non-negative X, Y, Z every plan keeps each real window inside its
\* display window: sale_display_start = sale_real_start - X and
\* sale_display_end = sale_real_end; pi_display_start = pi_real_start - Y and
\* a present pi_real_end is at most pi_display_end; the fields of a category
\* are all set or all null, pi_real_end apart (null with the others, free
\* otherwise).
C28_RealInsideDisplay ==
  (SALE_PRE_DAYS >= 0 /\ PI_PRE_DAYS >= 0 /\ PI_POST_DAYS >= 0) =>
    \A k \in 1..Len(by_vendor) :
      LET w == by_vendor[k] IN
      /\ \/ SaleFields(w) = <<None, None, None, None>>
         \/ /\ \A i \in 1..4 : SaleFields(w)[i] # None
            /\ Val(w.sale_display_start) = Val(w.sale_real_start) - SALE_PRE_DAYS
            /\ w.sale_display_end = w.sale_real_end
            /\ Val(w.sale_display_start) <= Val(w.sale_real_start)
      /\ \/ PiFields(w) = <<None, None, None, None>>
         \/ /\ \A i \in 1..3 : PiFields(w)[i] # None
            /\ Val(w.pi_display_start) = Val(w.pi_real_start) - PI_PRE_DAYS
            /\ w.pi_real_end # None => Val(w.pi_real_end) <= Val(w.pi_display_end)
            /\ Val(w.pi_real_start) <= Val(w.pi_display_end)

\* a plan holds a Sale window under X = 5 and a Price Increase window whose
\* real end is present
C28_Witness ==
  /\ idx = 2 /\ Len(by_vendor) = 1 /\ SALE_PRE_DAYS = 5
  /\ \A i \in 1..4 : SaleFields(by_vendor[1])[i] # None
  /\ \A i \in 1..4 : PiFields(by_vendor[1])[i] # None


-----------------------------------------------------------------------------
(* SpecGql: ShopifyClient.graphql, one HTTP request per step *)

DefaultRetries == 4

TransientStatus == {429, 500, 502, 503, 504}

\* what requests.post can do: raise (transport failure, timeout), or return a
\* response with a status code and a body
Exception == [kind |-> "exception", status |-> 0, body |-> "none"]
Response(st, b) == [kind |-> "response", status |-> st, body |-> b]
HttpOutcomes ==
  {Exception}
  \cup {Response(200, b) : b \in {"data", "errors", "not_json"}}
  \cup {Response(404, "text")}
  \cup {Response(st, "text") : st \in TransientStatus}

Err(type, st) == [type |-> type, status |-> st]

\* the value last_err takes when an attempt with outcome r fails
ErrorOf(r) ==
  IF r.kind = "exception" THEN Err("RequestException", 0)
  ELSE IF r.status \in TransientStatus THEN Err("Temporary Shopify error", r.status)
  ELSE IF r.status >= 400 THEN Err("HTTPError", r.status)
  ELSE IF r.body = "not_json" THEN Err("JSONDecodeError", r.status)
  ELSE Err("GraphQL errors", r.status)

\* the attempt returns data: a 2xx response whose JSON has no "errors"
IsSuccess(r) == r.kind = "response" /\ r.status < 400 /\ r.body = "data"

\* time.sleep argument in tenths of a second: 1.2 + attempt on a transient
\* status, 1.0 + attempt in the except branch
SleepAfter(r, att) ==
  IF r.kind = "response" /\ r.status \in TransientStatus
  THEN 12 + att * 10 ELSE 10 + att * 10

\* a deviating variant: one attempt too many
AttemptsLeftInclusive(att, n) == att <= n

\* `for attempt in range(retries)`
AttemptsLeft(att, n) == att < n

InitGql ==
  /\ SALE_PRE_DAYS = 5 /\ PI_PRE_DAYS = 15 /\ PI_POST_DAYS = 5
  /\ rows = <<>> /\ idx = 0 /\ by_vendor = <<>>
  /\ retries \in 0..DefaultRetries
  /\ attempt = 0
  /\ last_err = None
  /\ gql_pc = "loop"
  /\ gql_result = None
  /\ http_log = <<>>
  /\ sleeps = <<>>
  /\ RunIdle
  /\ ClientIdle

\* the body of the for loop when requests.post does r (src lines 339-356)
GqlTry(r) ==
  /\ http_log' = Append(http_log, r)
  /\ IF IsSuccess(r)
     THEN /\ gql_pc' = "returned"
          /\ gql_result' = Some([kind |-> "data", last |-> None])
          /\ UNCHANGED <<attempt, last_err, sleeps>>
     ELSE /\ last_err' = Some(ErrorOf(r))
          /\ sleeps' = Append(sleeps, SleepAfter(r, attempt))
          /\ attempt' = attempt + 1
          /\ UNCHANGED <<gql_pc, gql_result>>

\* one iteration of the for loop (src lines 338-356)
GqlAttempt ==
  /\ gql_pc = "loop"
  /\ AttemptsLeft(attempt, retries)
  /\ \E r \in HttpOutcomes : GqlTry(r)
  /\ UNCHANGED <<retries, cfgVars, cliVars, aggVars, runVars>>

\* the loop is over: raise RuntimeError(... last_err) (src line 358)
GqlExhausted ==
  /\ gql_pc = "loop"
  /\ ~AttemptsLeft(attempt, retries)
  /\ gql_pc' = "raised"
  /\ gql_result' = Some([kind |-> "error", last |-> last_err])
  /\ UNCHANGED <<retries, attempt, last_err, http_log, sleeps, cfgVars, cliVars, aggVars, runVars>>

NextGql == GqlAttempt \/ GqlExhausted

SpecGql == InitGql /\ [][NextGql]_vars

-----------------------------------------------------------------------------
(* Properties of graphql (SpecGql) *)

IsGraphqlErrors(r) == r.kind = "response" /\ r.status = 200 /\ r.body = "errors"

\* C3: a response with a successful HTTP status and a GraphQL "errors"
\* payload ends the call: it is the last request, no sleep follows it, and
\* the call has raised.
C3_GraphqlErrorsNotRetried ==
  \A i \in 1..Len(http_log) :
    IsGraphqlErrors(http_log[i]) =>
      /\ i = Len(http_log)
      /\ Len(sleeps) = i - 1
      /\ gql_pc = "raised"

\* C4: graphql issues at most `retries` requests; it returns at the first
\* successful response and issues no request after it; a failed attempt with
\* attempts left is followed by another; when every attempt has failed it
\* raises an error carrying the error of the last attempt.
C4_BoundedRetries ==
  /\ Len(http_log) <= retries
  /\ \A i \in 1..Len(http_log) : IsSuccess(http_log[i]) => i = Len(http_log)
  /\ gql_pc = "returned" <=>
       (http_log # <<>> /\ IsSuccess(http_log[Len(http_log)]))
  /\ gql_pc = "returned" => gql_result = Some([kind |-> "data", last |-> None])
  /\ gql_pc = "loop" => ENABLED NextGql
  /\ (gql_pc = "loop" /\ Len(http_log) < retries) => ENABLED GqlAttempt
  /\ gql_pc = "raised" =>
       /\ Len(http_log) = retries
       /\ \A i \in 1..retries : ~IsSuccess(http_log[i])
       /\ gql_result =
            Some([kind |-> "error",
                  last |-> IF retries = 0 THEN None
                           ELSE Some(ErrorOf(http_log[retries]))])

\* four attempts have failed (a transport failure first, a 503 last) and the
\* call has raised
C4_Witness ==
  /\ gql_pc = "raised" /\ retries = 4 /\ Len(http_log) = 4
  /\ http_log[1] = Exception
  /\ http_log[4] = Response(503, "text")
  /\ Val(gql_result).last = Some(Err("Temporary Shopify error", 503))


-----------------------------------------------------------------------------
(* Promotion Source Reader: fetch_active_today *)

DbRow(v, cid, et, s, e) ==
  [Vendor |-> v, CollectionID |-> cid, EntryType |-> et, StartD |-> s, EndD |-> e]

RECURSIVE LTrimSpaces(_)
LTrimSpaces(s) == IF s # <<>> /\ Head(s) = " " THEN LTrimSpaces(Tail(s)) ELSE s

RECURSIVE RTrimSpaces(_)
RTrimSpaces(s) ==
  IF s # <<>> /\ s[Len(s)] = " " THEN RTrimSpaces(SubSeq(s, 1, Len(s) - 1)) ELSE s

\* LTRIM(RTRIM(s))
SqlTrim(s) == LTrimSpaces(RTrimSpaces(s))

\* a deviating variant: the Sale branch of the WHERE clause forgets the end test
SqlActiveNoSaleEnd(r, day, x, y, z) ==
  \/ /\ SqlTrim(r.EntryType) = ET_Sale
     /\ r.StartD # None /\ r.EndD # None
     /\ Val(r.StartD) - x <= day
  \/ /\ SqlTrim(r.EntryType) = ET_PI
     /\ r.StartD # None
     /\ Val(r.StartD) - y <= day
     /\ (IF r.EndD # None THEN Val(r.EndD) ELSE Val(r.StartD) + z) >= day

\* the WHERE clause (src lines 214-228), GETDATE() being `day`
SqlActive(r, day, x, y, z) ==
  \/ /\ SqlTrim(r.EntryType) = ET_Sale
     /\ r.StartD # None /\ r.EndD # None
     /\ Val(r.StartD) - x <= day
     /\ Val(r.EndD) >= day
  \/ /\ SqlTrim(r.EntryType) = ET_PI
     /\ r.StartD # None
     /\ Val(r.StartD) - y <= day
     /\ (IF r.EndD # None THEN Val(r.EndD) ELSE Val(r.StartD) + z) >= day

\* the typed row of one raw row (src lines 235-256)
ReadRow(r) ==
  Row(Strip(r.Vendor),
      IF r.CollectionID # None /\ Strip(Val(r.CollectionID)) # <<>>
      THEN Some(Strip(Val(r.CollectionID))) ELSE None,
      Strip(r.EntryType),
      Val(r.StartD),
      r.EndD)

\* `if not vendor or not entry_type or not s: continue`
Readable(r) == Strip(r.Vendor) # <<>> /\ Strip(r.EntryType) # <<>> /\ r.StartD # None

FetchActiveToday(table, day, x, y, z) ==
  LET Keep(r) == SqlActive(r, day, x, y, z) /\ Readable(r)
      kept == SelectSeq(table, Keep)
  IN [i \in 1..Len(kept) |-> ReadRow(kept[i])]

-----------------------------------------------------------------------------
(* Inputs of main() *)

MaxDbRows == 2

Jun06 == Date(2024, 6, 6)

DbRowPool ==
  { DbRow(Acme, None,        ET_Sale, Some(Jun10), Some(Jun20)),
    DbRow(Acme, None,        ET_PI,   Some(Jun10), None),
    DbRow(Acme, Some(Coll1), ET_Sale, Some(Jun10), Some(Jun20)),
    DbRow(Acme, Some(Coll1), ET_PI,   Some(Jun10), Some(Jun25)),
    DbRow(Acme, Some(Coll2), ET_Sale, Some(Jun10), Some(Jun20)),
    DbRow(Bolt, Some(Coll2), ET_Sale, Some(Jun10), Some(Jun20)),
    DbRow(Bolt, Some(Coll2), ET_PI,   Some(Jun10), None),
    DbRow(Bolt, None,        ET_Sale, Some(Jun10), Some(Jun20)),
    DbRow(Bolt, None,        ET_PI,   Some(Jun10), Some(Jun25)) }

DbTables == UNION {[1..n -> DbRowPool] : n \in 0..MaxDbRows}

\* the days the run happens on: before the real start, inside both windows,
\* after the Sale and the open-ended Price Increase windows have ended
TodayChoices == {Jun06, Jun12, Jun25}

\* the environment values of SHOPIFY_SHOP and SHOPIFY_TOKEN: unset (the
\* default ""), blank, set
ShopEnvChoices  == {<<>>, <<" ">>, <<"s",".","m","y","s","h","o","p","i","f","y",".","c","o","m">>}
TokenEnvChoices == {<<>>, <<"s","h","p","a","t","_","1">>}

-----------------------------------------------------------------------------
(* SpecRun: main() *)

InitRun ==
  /\ SALE_PRE_DAYS = 5 /\ PI_PRE_DAYS = 15 /\ PI_POST_DAYS = 5
  /\ idx = 0 /\ by_vendor = <<>>
  /\ GqlIdle
  /\ ClientIdle
  /\ \E e \in ShopEnvChoices : SHOPIFY_SHOP = Strip(e)
  /\ \E e \in TokenEnvChoices : SHOPIFY_TOKEN = Strip(e)
  /\ today \in TodayChoices
  /\ dry_run \in BOOLEAN
  /\ db_only \in BOOLEAN
  /\ db_table \in DbTables
  /\ fault_budget = 0
  /\ store \in {NoMetafields, StaleMetafields}
  /\ pc = "init"
  /\ rows = <<>> /\ vendor_plans = <<>> /\ vi = 0
  /\ sale_should_exist = FALSE /\ pi_should_exist = FALSE
  /\ product_cache = <<>> /\ vendor_results = <<>> /\ product_ids = <<>>
  /\ pj = 0 /\ pending = <<>> /\ updated_products = 0 /\ deleted_metafields = 0
  /\ run = 1 /\ calls = <<>> /\ created = {} /\ store_after_first = NoMetafields
  /\ failures = 0

\* a remote call, with the index of the vendor it is made for
Call(op, arg, ok) == [op |-> op, arg |-> arg, ok |-> ok, vi |-> vi]

\* the outcomes a remote call can have: it fails only while failures are left
\* to inject
Outcomes == IF failures < fault_budget THEN {TRUE, FALSE} ELSE {TRUE}

\* the sets of calls, out of n, that fail
FailSets(n) ==
  {F \in SUBSET (1..n) : Cardinality(F) <= fault_budget - failures}

RECURSIVE SumSeq(_)
SumSeq(q) == IF q = <<>> THEN 0 ELSE Head(q) + SumSeq(Tail(q))

RECURSIVE Dedup(_, _)
Dedup(q, acc) ==
  IF q = <<>> THEN acc
  ELSE Dedup(Tail(q), IF Head(q) \in SeqToSet(acc) THEN acc ELSE Append(acc, Head(q)))

RECURSIVE Concat(_)
Concat(qs) == IF qs = <<>> THEN <<>> ELSE Head(qs) \o Concat(Tail(qs))

HasCollectionId(w) == Len(w.collection_ids) > 0

\* cache_key (src line 614)
CacheKey(w) ==
  <<w.vendor, IF HasCollectionId(w) THEN "collection_id" ELSE "vendor", w.collection_ids>>

\* what the scope is asked of: the collection ids, else the vendor name
ScopeTargets(w) == IF HasCollectionId(w) THEN w.collection_ids ELSE <<w.vendor>>

\* a deviating variant: the dry run asks for the product ids
CountOpEnumerates(w) ==
  IF HasCollectionId(w) THEN "list_product_ids_in_collection"
  ELSE "list_product_ids_by_vendor"

ListOp(w)  == IF HasCollectionId(w) THEN "list_product_ids_in_collection"
              ELSE "list_product_ids_by_vendor"
CountOp(w) == IF HasCollectionId(w) THEN "rest_count_products_in_collection"
              ELSE "rest_count_products_by_vendor"

\* a deviating variant: the products of the collections, repeats kept
ScopeProductIdsNoDedup(w) ==
  IF HasCollectionId(w)
  THEN Concat([i \in 1..Len(w.collection_ids) |->
                 ListProductIdsInCollection(w.collection_ids[i])])
  ELSE ListProductIdsByVendor(w.vendor)

\* the product ids of the scope (src lines 667-677): the collections' products
\* in order without repeats, else the vendor's products
ScopeProductIds(w) ==
  IF HasCollectionId(w)
  THEN Dedup(Concat([i \in 1..Len(w.collection_ids) |->
                       ListProductIdsInCollection(w.collection_ids[i])]), <<>>)
  ELSE ListProductIdsByVendor(w.vendor)

RestCount(w, t) ==
  IF HasCollectionId(w) THEN RestCountInCollection(t) ELSE RestCountByVendor(t)

\* a deviating variant: a failed count call answers the size of the whole shop
RestCountOrAll(w, t, ok) == IF ok THEN RestCount(w, t) ELSE Cardinality(Products)

\* what a count primitive returns (src lines 422-428, 433-439): the count the
\* endpoint answers, 0 when anything inside the try raises
RestCountOrZero(w, t, ok) == IF ok THEN RestCount(w, t) ELSE 0

\* payload_will_exist (src line 642), as a truth value
PayloadWillExist(w, sale_se, pi_se) ==
  \/ sale_se /\ w.sale_real_start # None /\ w.sale_real_end # None
  \/ pi_se /\ w.pi_real_start # None

\* a deviating variant: deletions are counted only when both categories go
KeysWillDeleteBoth(sale_se, pi_se) == ~sale_se /\ ~pi_se

\* keys_will_delete (src line 647)
KeysWillDelete(sale_se, pi_se) == ~sale_se \/ ~pi_se

\* a deviating variant: a failed enumeration is caught as well
CaughtOpsAlsoList ==
  {"metafields_set", "get_metafield_ids", "metafield_delete",
   "list_product_ids_in_collection", "list_product_ids_by_vendor"}

\* a deviating variant: a failed metafields_set is not caught
CaughtOpsNoSet == {"get_metafield_ids", "metafield_delete"}

\* the calls main() wraps in try/except (src lines 696-700, 710-720): their
\* error is printed and the loop goes on
CaughtOps == {"metafields_set", "get_metafield_ids", "metafield_delete"}

\* where the script is after a call: an error that is not caught ends it
AfterCall(op, ok, goes_on) == IF ok \/ op \in CaughtOps THEN goes_on ELSE "crashed"

\* a deviating variant: only the shop host is required
RequireEnvShopOnly(shop, token) == shop = <<>>

\* require_env (src lines 84-86): the ValueError is raised
RequireEnvRaises(shop, token) == shop = <<>> \/ token = <<>>

\* lines 539-542: unless DB_ONLY, the credentials are required
MainRequireEnv ==
  /\ pc = "init"
  /\ pc' = IF ~db_only /\ RequireEnvRaises(SHOPIFY_SHOP, SHOPIFY_TOKEN)
           THEN "config_error" ELSE "start"
  /\ UNCHANGED <<cfgVars, cliVars, aggVars, gqlVars, envVars, store, histVars,
                 vendor_plans, vi, sale_should_exist, pi_should_exist, product_cache,
                 vendor_results, product_ids, pj, pending, updated_products,
                 deleted_metafields>>

\* lines 544-563: the database is read; no active row ends the run
MainFetch ==
  /\ pc = "start"
  /\ rows' = FetchActiveToday(db_table, today, SALE_PRE_DAYS, PI_PRE_DAYS, PI_POST_DAYS)
  /\ pc' = IF rows' = <<>> THEN "done_nothing" ELSE "fetched"
  /\ UNCHANGED <<cfgVars, cliVars, idx, by_vendor, gqlVars, envVars, store, histVars,
                 vendor_plans, vi, sale_should_exist, pi_should_exist, product_cache,
                 vendor_results, product_ids, pj, pending, updated_products,
                 deleted_metafields>>

\* lines 565-586: the plans are built; DB_ONLY ends the run here
MainAggregate ==
  /\ pc = "fetched"
  /\ vendor_plans' = AggregateByVendor(rows, SALE_PRE_DAYS, PI_PRE_DAYS, PI_POST_DAYS)
  /\ IF db_only
     THEN pc' = "done_db_only" /\ vi' = vi
     ELSE pc' = "vendor" /\ vi' = 1
  /\ UNCHANGED <<cfgVars, cliVars, aggVars, gqlVars, envVars, store, histVars,
                 sale_should_exist, pi_should_exist, product_cache,
                 vendor_results, product_ids, pj, pending, updated_products,
                 deleted_metafields>>

\* the for loop over vendor_plans moves on, or ends with the totals
NextVendor ==
  IF vi < Len(vendor_plans)
  THEN vi' = vi + 1 /\ pc' = "vendor"
  ELSE vi' = vi /\ pc' = "done"

\* the for loop over product_ids moves on
NextProduct ==
  IF pj < Len(product_ids)
  THEN pj' = pj + 1 /\ pc' = "product" /\ vi' = vi
  ELSE pj' = pj /\ NextVendor

\* lines 588-661: the decision for one vendor, the size of its scope (cached
\* per key), and in a dry run its summary
VendorScope ==
  /\ pc = "vendor"
  /\ LET w   == vendor_plans[vi]
         sse == SaleShouldExist(w, today)
         pse == PiShouldExist(w, today)
         key == CacheKey(w)
         ts  == ScopeTargets(w)
         hit == key \in DOMAIN product_cache
     IN
     /\ sale_should_exist' = sse
     /\ pi_should_exist' = pse
     /\ \E F \in (IF hit THEN {{}} ELSE FailSets(Len(ts))) :
          LET asked == IF hit THEN 0
                       ELSE IF dry_run \/ F = {} THEN Len(ts)
                       ELSE SetMin(F)
              log   == [i \in 1..asked |->
                          Call(IF dry_run THEN CountOp(w) ELSE ListOp(w), ts[i], i \notin F)]
              crash == /\ ~hit /\ ~dry_run /\ F # {}
                       /\ AfterCall(ListOp(w), FALSE, "on") = "crashed"
              count == IF hit THEN product_cache[key]
                       ELSE IF dry_run
                       THEN SumSeq([i \in 1..Len(ts) |->
                                      RestCountOrZero(w, ts[i], i \notin F)])
                       ELSE Len(ScopeProductIds(w))
              payload_will_exist == PayloadWillExist(w, sse, pse)
              keys_will_delete == KeysWillDelete(sse, pse)
          IN
          /\ calls' = calls \o log
          /\ failures' = failures + Cardinality({i \in 1..asked : i \in F})
          /\ IF crash
             THEN /\ pc' = "crashed"
                  /\ UNCHANGED <<vi, product_cache, vendor_results>>
             ELSE /\ product_cache' = IF hit THEN product_cache
                                      ELSE (key :> count) @@ product_cache
                  /\ IF dry_run
                     THEN /\ vendor_results' =
                               Append(vendor_results,
                                      [vendor |-> w.vendor,
                                       used_collection_id |-> HasCollectionId(w),
                                       collection_ids |-> w.collection_ids,
                                       products_found |-> count,
                                       will_write |-> IF payload_will_exist THEN count ELSE 0,
                                       will_delete |-> IF keys_will_delete THEN count ELSE 0])
                          /\ NextVendor
                     ELSE /\ pc' = "enumerate"
                          /\ UNCHANGED <<vi, vendor_results>>
  /\ UNCHANGED <<cfgVars, cliVars, aggVars, gqlVars, envVars, store, run, created,
                 store_after_first, vendor_plans, product_ids, pj, pending,
                 updated_products, deleted_metafields>>

\* lines 667-679 (live): the product ids of the scope are enumerated
EnumerateProducts ==
  /\ pc = "enumerate"
  /\ LET w  == vendor_plans[vi]
         ts == ScopeTargets(w)
     IN \E F \in FailSets(Len(ts)) :
          LET asked == IF F = {} THEN Len(ts) ELSE SetMin(F)
              ids   == ScopeProductIds(w)
          IN
          /\ calls' = calls \o [i \in 1..asked |-> Call(ListOp(w), ts[i], i \notin F)]
          /\ failures' = failures + (IF F = {} THEN 0 ELSE 1)
          /\ IF F # {} /\ AfterCall(ListOp(w), FALSE, "on") = "crashed"
             THEN pc' = "crashed" /\ UNCHANGED <<vi, pj, product_ids>>
             ELSE /\ product_ids' = ids
                  /\ IF ids = <<>>
                     THEN pj' = pj /\ NextVendor
                     ELSE pj' = 1 /\ pc' = "product" /\ vi' = vi
  /\ UNCHANGED <<cfgVars, cliVars, aggVars, gqlVars, envVars, store, run, created,
                 store_after_first, vendor_plans, sale_should_exist, pi_should_exist,
                 product_cache, vendor_results, pending, updated_products,
                 deleted_metafields>>

\* lines 684-700: the payload of one product is built and set in one call
ProductSet ==
  /\ pc = "product"
  /\ LET pid    == product_ids[pj]
         to_set == BuildToSet(pid, vendor_plans[vi], sale_should_exist, pi_should_exist)
     IN IF to_set = <<>>
        THEN /\ pc' = "lookup"
             /\ UNCHANGED <<store, calls, created, failures, updated_products>>
        ELSE \E ok \in Outcomes :
               /\ calls' = Append(calls, Call("metafields_set", to_set, ok))
               /\ pc' = AfterCall("metafields_set", ok, "lookup")
               /\ IF ok
                  THEN /\ store' = ApplySet(store, to_set)
                       /\ created' = created \cup
                            {<<pid, to_set[i].key>> :
                               i \in {j \in 1..Len(to_set) : store[pid][to_set[j].key] = None}}
                       /\ updated_products' = updated_products + 1
                       /\ failures' = failures
                  ELSE /\ failures' = failures + 1
                       /\ UNCHANGED <<store, created, updated_products>>
  /\ UNCHANGED <<cfgVars, cliVars, aggVars, gqlVars, envVars, run, store_after_first,
                 vendor_plans, vi, sale_should_exist, pi_should_exist, product_cache,
                 vendor_results, product_ids, pj, pending, deleted_metafields>>

\* lines 703-711: the keys that should not exist are looked up
ProductLookup ==
  /\ pc = "lookup"
  /\ LET pid  == product_ids[pj]
         keys == KeysToCheck(sale_should_exist, pi_should_exist)
     IN IF keys = <<>>
        THEN /\ NextProduct
             /\ UNCHANGED <<calls, failures, pending>>
        ELSE \E ok \in Outcomes :
               /\ calls' = Append(calls, Call("get_metafield_ids", <<pid, keys>>, ok))
               /\ failures' = IF ok THEN failures ELSE failures + 1
               /\ LET ids == IF ok THEN ExistingIds(store, pid, keys) ELSE <<>>
                  IN /\ pending' = ids
                     /\ IF AfterCall("get_metafield_ids", ok, "on") = "crashed"
                        THEN pc' = "crashed" /\ UNCHANGED <<vi, pj>>
                        ELSE IF ids = <<>>
                        THEN NextProduct
                        ELSE pc' = "delete" /\ UNCHANGED <<vi, pj>>
  /\ UNCHANGED <<cfgVars, cliVars, aggVars, gqlVars, envVars, store, run, created,
                 store_after_first, vendor_plans, sale_should_exist, pi_should_exist,
                 product_cache, vendor_results, product_ids, updated_products,
                 deleted_metafields>>

\* lines 712-718: one metafield_delete per id found
ProductDelete ==
  /\ pc = "delete"
  /\ \E ok \in Outcomes :
       /\ calls' = Append(calls, Call("metafield_delete", Head(pending), ok))
       /\ IF ok
          THEN /\ store' = ApplyDelete(store, Head(pending))
               /\ deleted_metafields' = deleted_metafields + 1
               /\ failures' = failures
          ELSE /\ failures' = failures + 1
               /\ UNCHANGED <<store, deleted_metafields>>
       /\ pending' = Tail(pending)
       /\ IF AfterCall("metafield_delete", ok, "on") = "crashed"
          THEN pc' = "crashed" /\ UNCHANGED <<vi, pj>>
          ELSE IF Tail(pending) = <<>>
          THEN NextProduct
          ELSE UNCHANGED <<pc, vi, pj>>
  /\ UNCHANGED <<cfgVars, cliVars, aggVars, gqlVars, envVars, run, created, store_after_first,
                 vendor_plans, sale_should_exist, pi_should_exist, product_cache,
                 vendor_results, product_ids, updated_products>>

\* the script is run again after a complete live run, on the same day and the
\* same table
RunAgain ==
  /\ pc = "done" /\ ~dry_run /\ run = 1
  /\ run' = 2
  /\ store_after_first' = store
  /\ pc' = "init"
  /\ rows' = <<>> /\ vendor_plans' = <<>> /\ vi' = 0
  /\ sale_should_exist' = FALSE /\ pi_should_exist' = FALSE
  /\ product_cache' = <<>> /\ vendor_results' = <<>> /\ product_ids' = <<>>
  /\ pj' = 0 /\ pending' = <<>> /\ updated_products' = 0 /\ deleted_metafields' = 0
  /\ calls' = <<>> /\ created' = {}
  /\ UNCHANGED <<cfgVars, cliVars, idx, by_vendor, gqlVars, envVars, store, failures>>

NextRun ==
  \/ MainRequireEnv
  \/ MainFetch
  \/ MainAggregate
  \/ VendorScope
  \/ EnumerateProducts
  \/ ProductSet
  \/ ProductLookup
  \/ ProductDelete
  \/ RunAgain

SpecRun == InitRun /\ [][NextRun]_vars

-----------------------------------------------------------------------------
(* SpecFault: one run of main() in which remote calls can fail *)

\* how many remote calls of one run fail at most
MaxFaults == 2

\* one vendor with two collections that share a product; two vendors, one
\* found by its name and one by its collection
FaultTables ==
  { << DbRow(Acme, Some(Coll1), ET_Sale, Some(Jun10), Some(Jun20)),
       DbRow(Acme, Some(Coll2), ET_Sale, Some(Jun10), Some(Jun20)) >>,
    << DbRow(Acme, None, ET_PI, Some(Jun10), None),
       DbRow(Bolt, Some(Coll2), ET_Sale, Some(Jun10), Some(Jun20)) >> }

InitFault ==
  /\ SALE_PRE_DAYS = 5 /\ PI_PRE_DAYS = 15 /\ PI_POST_DAYS = 5
  /\ idx = 0 /\ by_vendor = <<>>
  /\ GqlIdle
  /\ ClientIdle
  /\ \E e \in ShopEnvChoices : SHOPIFY_SHOP = Strip(e)
  /\ \E e \in TokenEnvChoices : SHOPIFY_TOKEN = Strip(e)
  /\ ~RequireEnvRaises(SHOPIFY_SHOP, SHOPIFY_TOKEN)
  /\ today \in TodayChoices
  /\ dry_run \in BOOLEAN
  /\ db_only = FALSE
  /\ db_table \in FaultTables
  /\ fault_budget = MaxFaults
  /\ store \in {NoMetafields, StaleMetafields}
  /\ pc = "init"
  /\ rows = <<>> /\ vendor_plans = <<>> /\ vi = 0
  /\ sale_should_exist = FALSE /\ pi_should_exist = FALSE
  /\ product_cache = <<>> /\ vendor_results = <<>> /\ product_ids = <<>>
  /\ pj = 0 /\ pending = <<>> /\ updated_products = 0 /\ deleted_metafields = 0
  /\ run = 1 /\ calls = <<>> /\ created = {} /\ store_after_first = NoMetafields
  /\ failures = 0

NextFault ==
  \/ MainRequireEnv
  \/ MainFetch
  \/ MainAggregate
  \/ VendorScope
  \/ EnumerateProducts
  \/ ProductSet
  \/ ProductLookup
  \/ ProductDelete

SpecFault == InitFault /\ [][NextFault]_vars

\* a live run on a day inside the windows, the products carrying old values
InitFaultLive ==
  InitFault /\ ~dry_run /\ today = Jun12 /\ store = StaleMetafields

\* every step of the script is taken in the end: nothing blocks it
SpecFaultLive == InitFaultLive /\ [][NextFault]_vars /\ WF_vars(NextFault)


-----------------------------------------------------------------------------
(* Properties of main() (SpecRun) *)

\* the rows of the table that belong to vendor v, by category
DbRowsOf(v) == {db_table[i] : i \in {j \in 1..Len(db_table) : Strip(db_table[j].Vendor) = v}}
DbSaleRowsOf(v) == {r \in DbRowsOf(v) : r.EntryType \in SaleTypes /\ r.StartD # None}
DbVendors == {Strip(db_table[i].Vendor) : i \in 1..Len(db_table)}

\* the Sale display window of every Sale row of v lies before today
SaleWindowEnded(v) ==
  /\ DbSaleRowsOf(v) # {}
  /\ \A r \in DbSaleRowsOf(v) :
       (IF r.EndD # None THEN Val(r.EndD) ELSE Val(r.StartD)) < today

\* the products the rows of v point at: their collections, else the vendor's
\* own products
DbScope(v) ==
  LET cids == {Val(r.CollectionID) : r \in {q \in DbRowsOf(v) : q.CollectionID # None}}
  IN IF cids # {}
     THEN UNION {SeqToSet(ListProductIdsInCollection(c)) : c \in cids}
     ELSE SeqToSet(ListProductIdsByVendor(v))

LiveRunComplete ==
  /\ ~dry_run /\ ~db_only /\ failures = 0
  /\ pc \in {"done", "done_nothing"}

\* C1: after a complete live run without remote failures, no product in the
\* scope of a vendor whose Sale display window has ended carries a Sale
\* metafield.
C1_EndedSaleDeleted ==
  LiveRunComplete =>
    \A v \in DbVendors :
      SaleWindowEnded(v) =>
        \A p \in DbScope(v) :
          store[p][MF_SALE_START] = None /\ store[p][MF_SALE_END] = None

\* the (product, key) pairs the current run created although the first run
\* had left them absent
CreatedAnew == {c \in created : store_after_first[c[1]][c[2]] = None}

\* C2 as stated: the second run creates no metafield that was absent after
\* the first run and deletes nothing.
C2_SecondRunIdle ==
  (run = 2 /\ failures = 0) => (deleted_metafields = 0 /\ CreatedAnew = {})

ScopesDisjoint ==
  \A i, j \in 1..Len(vendor_plans) :
    i # j => SeqToSet(ScopeProductIds(vendor_plans[i]))
               \cap SeqToSet(ScopeProductIds(vendor_plans[j])) = {}

\* C2 amended: the second run leaves every product with exactly the
\* metafields the first run left (no net creation, no net deletion); when no
\* product lies in the scope of two vendor plans it also deletes nothing and
\* creates nothing.
C2_SecondRunNoNetChange ==
  (run = 2 /\ failures = 0) =>
    /\ pc = "done" => store = store_after_first
    /\ ScopesDisjoint => (deleted_metafields = 0 /\ CreatedAnew = {})

\* a second run has completed for two vendors that share a product, and it
\* deleted and created metafields on the way
C2_Witness ==
  /\ run = 2 /\ pc = "done" /\ failures = 0
  /\ ~ScopesDisjoint
  /\ deleted_metafields > 0 /\ CreatedAnew # {}
  /\ store = store_after_first

\* the fetched rows of the vendor of plan k, by category
FetchedOf(k, T) ==
  {rows[i] : i \in {j \in 1..Len(rows) :
                      rows[j].vendor = vendor_plans[k].vendor /\ rows[j].entry_type \in T}}

\* the text a key must carry for the vendor of plan k: the real date taken
\* from the fetched rows
RealValue(k, key) ==
  IF key = MF_SALE_START
  THEN IsoFormat(SetMin({r.start_date : r \in FetchedOf(k, SaleTypes)}))
  ELSE IF key = MF_SALE_END
  THEN IsoFormat(SetMax({EndOrStart(r) : r \in FetchedOf(k, SaleTypes)}))
  ELSE IF key = MF_PI_START
  THEN IsoFormat(SetMin({r.start_date : r \in FetchedOf(k, PiTypes)}))
  ELSE IsoFormat(SetMax({Val(r.end_date) :
                           r \in {q \in FetchedOf(k, PiTypes) : q.end_date # None}}))

ScenarioA == <<DbRow(Acme, None, ET_Sale, Some(Date(2024, 6, 10)), Some(Date(2024, 6, 20)))>>

SetCalls == {i \in 1..Len(calls) : calls[i].op = "metafields_set"}

\* C5: every metafield passed to metafields_set carries a date of the real
\* window of the vendor's plan, never the display start.  Example: Sale
\* 2024-06-10 .. 2024-06-20, X = 5, today 2024-06-06: the display window
\* starts 2024-06-05 and the values set are 2024-06-10 and 2024-06-20.
C5_RealDatesPublished ==
  /\ \A i \in SetCalls :
       \A n \in 1..Len(calls[i].arg) :
         LET mf == calls[i].arg[n]
             w  == vendor_plans[calls[i].vi]
         IN /\ mf.value = RealValue(calls[i].vi, mf.key)
            /\ mf.key = MF_SALE_START => mf.value # IsoFormat(Val(w.sale_display_start))
            /\ mf.key = MF_PI_START => mf.value # IsoFormat(Val(w.pi_display_start))
  /\ (db_table = ScenarioA /\ today = Date(2024, 6, 6) /\ SALE_PRE_DAYS = 5) =>
       \A i \in SetCalls :
         /\ vendor_plans[1].sale_display_start = Some(Date(2024, 6, 5))
         /\ Len(calls[i].arg) = 2
         /\ calls[i].arg[1].key = MF_SALE_START /\ calls[i].arg[1].value = <<2024, 6, 10>>
         /\ calls[i].arg[2].key = MF_SALE_END /\ calls[i].arg[2].value = <<2024, 6, 20>>

\* the example has run live and set the metafields of a product
C5_Witness ==
  /\ db_table = ScenarioA /\ today = Date(2024, 6, 6) /\ ~dry_run
  /\ SetCalls # {}
  /\ store["p1"][MF_SALE_START] = Some(<<2024, 6, 10>>)

\* C6: the step that decides a vendor sets each should-exist flag to true
\* exactly when both display bounds of the category are present and
\* displayStart <= today <= displayEnd; a category without a fetched row is
\* never "should exist".
C6_ShouldExist ==
  [][pc = "vendor" =>
       LET w == vendor_plans[vi] IN
       /\ sale_should_exist' =
            (/\ w.sale_display_start # None /\ w.sale_display_end # None
             /\ Val(w.sale_display_start) <= today /\ today <= Val(w.sale_display_end))
       /\ pi_should_exist' =
            (/\ w.pi_display_start # None /\ w.pi_display_end # None
             /\ Val(w.pi_display_start) <= today /\ today <= Val(w.pi_display_end))
       /\ FetchedOf(vi, SaleTypes) = {} => ~sale_should_exist'
       /\ FetchedOf(vi, PiTypes) = {} => ~pi_should_exist'
    ]_vars

\* a vendor has been decided on the last day of its Price Increase window,
\* with no Sale row: the one flag is true, the other false
C6_Witness ==
  /\ pc = "enumerate"
  /\ vendor_plans[vi].pi_display_end = Some(today)
  /\ pi_should_exist /\ ~sale_should_exist

NoRepeats(q) == \A i, j \in 1..Len(q) : q[i] = q[j] => i = j

CallsOf(op) == {i \in 1..Len(calls) : calls[i].op = op}

\* C13: in a live run the products processed for a vendor are, without
\* repeats, the union of the products of the plan's collections when the plan
\* has a collection id, and otherwise the products whose normalized vendor
\* field equals the normalized vendor name; the vendor query is issued only
\* for plans without a collection id and the collection query only for plans
\* with one; a dry-run summary records which source was used.
C13_ScopePriority ==
  /\ (~dry_run /\ pc \in {"product", "lookup", "delete"}) =>
       LET w == vendor_plans[vi] IN
       /\ NoRepeats(product_ids)
       /\ SeqToSet(product_ids) =
            IF w.collection_ids # <<>>
            THEN UNION {SeqToSet(CollectionProducts(GidPrefix \o c)) :
                          c \in SeqToSet(w.collection_ids)}
            ELSE {p \in Products : Normalize(ProductVendor[p]) = Normalize(w.vendor)}
  /\ \A i \in CallsOf("list_product_ids_by_vendor") :
       /\ vendor_plans[calls[i].vi].collection_ids = <<>>
       /\ calls[i].arg = vendor_plans[calls[i].vi].vendor
  /\ \A i \in CallsOf("list_product_ids_in_collection") :
       calls[i].arg \in SeqToSet(vendor_plans[calls[i].vi].collection_ids)
  /\ \A k \in 1..Len(vendor_results) :
       vendor_results[k].used_collection_id = (vendor_plans[k].collection_ids # <<>>)

\* a live run is processing the three products of a vendor whose two
\* collections share a product, and the vendor query was not issued
C13_Witness ==
  /\ ~dry_run /\ pc = "product"
  /\ Len(vendor_plans[vi].collection_ids) = 2
  /\ product_ids = <<"p1", "p2", "p3">>
  /\ CallsOf("list_product_ids_by_vendor") = {}

-----------------------------------------------------------------------------
(* Properties of the two modes of the Reconciler *)

CountOps == {"rest_count_products_in_collection", "rest_count_products_by_vendor"}
ListOps  == {"list_product_ids_in_collection", "list_product_ids_by_vendor"}

FailedCalls == {i \in 1..Len(calls) : ~calls[i].ok}

\* C14: in a dry run, whatever the remote calls answer, every remote call is
\* a count primitive: no metafields_set, metafield_delete, get_metafield_ids
\* and no enumeration of product ids; the store is never changed.
C14_DryRunOnlyCounts ==
  dry_run =>
    /\ \A i \in 1..Len(calls) : calls[i].op \in CountOps
    /\ pc \notin {"enumerate", "product", "lookup", "delete"}
    /\ store \in {NoMetafields, StaleMetafields}

\* a dry run has ended after two vendors, and some of its count calls failed
C14_Witness ==
  /\ dry_run /\ pc = "done" /\ Len(vendor_results) = 2
  /\ FailedCalls # {} /\ Len(calls) >= 2

\* the category is shown today, from the plan's display window
Shown(ds, de) == ds # None /\ de # None /\ Val(ds) <= today /\ today <= Val(de)

\* C15: every dry-run summary has will_write = products_found if (Sale should
\* exist and both Sale real bounds are present) or (Price Increase should
\* exist and its real start is present), else 0, and will_delete =
\* products_found if one of the two categories should not exist, else 0.
C15_DryRunSummary ==
  dry_run =>
    \A k \in 1..Len(vendor_results) :
      LET w == vendor_plans[k]
          r == vendor_results[k]
          sse == Shown(w.sale_display_start, w.sale_display_end)
          pse == Shown(w.pi_display_start, w.pi_display_end)
          writes == \/ sse /\ w.sale_real_start # None /\ w.sale_real_end # None
                    \/ pse /\ w.pi_real_start # None
      IN /\ r.vendor = w.vendor
         /\ r.will_write = IF writes THEN r.products_found ELSE 0
         /\ r.will_delete = IF ~sse \/ ~pse THEN r.products_found ELSE 0
         /\ r.will_write \in {0, r.products_found}
         /\ r.will_delete \in {0, r.products_found}

\* a dry run has summarised a vendor with two products whose Sale and Price
\* Increase both should exist: two products to write, none to delete from
C15_Witness ==
  /\ dry_run /\ Len(vendor_results) = 1
  /\ vendor_results[1].products_found = 2
  /\ vendor_results[1].will_write = 2 /\ vendor_results[1].will_delete = 0

\* the calls a step adds to the log
NewCalls == SubSeq(calls', Len(calls) + 1, Len(calls'))

\* C16: the step that handles the set phase of one product of a live run
\* issues exactly one metafields_set call when the payload is non-empty and
\* none when it is empty; the payload is for that product, holds no key
\* twice, holds sale-start and sale-end exactly when Sale should exist and
\* both Sale real bounds are present, pi-start exactly when Price Increase
\* should exist and its real start is present, and pi-end exactly when in
\* addition the real end is present.
C16_SetPayload ==
  [][pc = "product" =>
       LET w == vendor_plans[vi]
           wantSale == /\ Shown(w.sale_display_start, w.sale_display_end)
                       /\ w.sale_real_start # None /\ w.sale_real_end # None
           wantPi == /\ Shown(w.pi_display_start, w.pi_display_end)
                     /\ w.pi_real_start # None
           wantKeys == (IF wantSale THEN {MF_SALE_START, MF_SALE_END} ELSE {})
                       \cup (IF wantPi THEN {MF_PI_START} ELSE {})
                       \cup (IF wantPi /\ w.pi_real_end # None THEN {MF_PI_END} ELSE {})
       IN IF wantKeys = {}
          THEN NewCalls = <<>>
          ELSE /\ Len(NewCalls) = 1
               /\ NewCalls[1].op = "metafields_set"
               /\ LET ms == NewCalls[1].arg IN
                  /\ {ms[n].key : n \in 1..Len(ms)} = wantKeys
                  /\ Len(ms) = Cardinality(wantKeys)
                  /\ \A n \in 1..Len(ms) :
                       /\ ms[n].ownerId = product_ids[pj]
                       /\ ms[n].namespace = "custom"
    ]_vars

\* a live run has set, in one call, the two Sale keys and the Price Increase
\* start of a product whose plan has no Price Increase real end
C16_Witness ==
  /\ ~dry_run
  /\ \E i \in CallsOf("metafields_set") :
       /\ {calls[i].arg[n].key : n \in 1..Len(calls[i].arg)}
            = {MF_SALE_START, MF_SALE_END, MF_PI_START}
       /\ vendor_plans[calls[i].vi].pi_real_end = None
       /\ calls[i].ok

SaleKeys == {MF_SALE_START, MF_SALE_END}
PiKeys   == {MF_PI_START, MF_PI_END}

\* the keys of the categories that should not exist for plan w
KeysNotShown(w) ==
  (IF Shown(w.sale_display_start, w.sale_display_end) THEN {} ELSE SaleKeys)
  \cup (IF Shown(w.pi_display_start, w.pi_display_end) THEN {} ELSE PiKeys)

\* C17: in a live run the lookup of a product asks for exactly the keys of
\* the categories that should not exist (no lookup when there is none); the
\* ids to delete are those of the asked keys the product carries, each once;
\* each delete step issues exactly one metafield_delete, for the next such
\* id; no delete call of a vendor's pass is for a key of a category that
\* should exist for that vendor.
C17_DeleteOnlyNotShown ==
  /\ [][pc = "lookup" =>
          LET w == vendor_plans[vi]
              pid == product_ids[pj]
          IN IF KeysNotShown(w) = {}
             THEN NewCalls = <<>> /\ pc' # "delete"
             ELSE /\ Len(NewCalls) = 1
                  /\ NewCalls[1].op = "get_metafield_ids"
                  /\ NewCalls[1].arg[1] = pid
                  /\ SeqToSet(NewCalls[1].arg[2]) = KeysNotShown(w)
                  /\ NewCalls[1].ok =>
                       /\ SeqToSet(pending') =
                            {<<pid, k>> : k \in {q \in KeysNotShown(w) : store[pid][q] # None}}
                       /\ NoRepeats(pending')
                       /\ (pc' = "delete") = (pending' # <<>>)
      ]_vars
  /\ [][pc = "delete" =>
          /\ Len(NewCalls) = 1
          /\ NewCalls[1].op = "metafield_delete"
          /\ NewCalls[1].arg = Head(pending)
          /\ pending' = Tail(pending)
      ]_vars
  /\ [](\A i \in CallsOf("metafield_delete") :
          /\ calls[i].arg[2] \in KeysNotShown(vendor_plans[calls[i].vi])
          /\ calls[i].arg[1] \in SeqToSet(ScopeProductIds(vendor_plans[calls[i].vi])))
  /\ [](\A i, j \in CallsOf("metafield_delete") :
          (calls[i].arg = calls[j].arg /\ calls[i].vi = calls[j].vi) => i = j)

\* a live run has ended in which the Sale keys of a product were set and its
\* two Price Increase keys deleted, one call each
C17_Witness ==
  /\ ~dry_run /\ pc = "done" /\ run = 1
  /\ \E p \in Products :
       /\ store[p][MF_SALE_START] # None /\ store[p][MF_PI_START] = None
       /\ Cardinality({i \in CallsOf("metafield_delete") : calls[i].arg[1] = p}) = 2

\* the step just taken made one call, of operation op, and it failed
JustFailed(op) ==
  Len(NewCalls) = 1 /\ NewCalls[1].op = op /\ ~NewCalls[1].ok

\* the for loops move on from the current product
MovedOn ==
  IF pj < Len(product_ids) THEN pc' = "product" /\ pj' = pj + 1 /\ vi' = vi
  ELSE IF vi < Len(vendor_plans) THEN pc' = "vendor" /\ vi' = vi + 1
  ELSE pc' = "done"

EnumerationFailed == \E i \in FailedCalls : calls[i].op \in ListOps

\* C18: a failed metafields_set is followed by the lookup of the same product;
\* a failed lookup is followed by the next product, the next vendor or the
\* final summary; a failed delete is followed by the remaining deletes of the
\* product, then the same; the run is never ended by such a failure, and
\* unless an enumeration of product ids fails it reaches its final summary.
C18_ProductFailuresSkipped ==
  /\ [][(pc = "product" /\ JustFailed("metafields_set")) =>
          (pc' = "lookup" /\ pj' = pj /\ vi' = vi)]_vars
  /\ [][(pc = "lookup" /\ JustFailed("get_metafield_ids")) => MovedOn]_vars
  /\ [][(pc = "delete" /\ JustFailed("metafield_delete")) =>
          /\ pending' = Tail(pending)
          /\ IF Tail(pending) # <<>>
             THEN pc' = "delete" /\ pj' = pj /\ vi' = vi
             ELSE MovedOn]_vars
  /\ [](pc = "crashed" => EnumerationFailed)
  /\ <>(pc \in {"done", "done_nothing"} \/ EnumerationFailed)

\* a live run has reached its final summary although a set and a delete
\* failed, and it went on to set the metafields of a later product
C18_Witness ==
  /\ ~dry_run /\ pc = "done"
  /\ \E i, j \in FailedCalls :
       /\ calls[i].op = "metafields_set" /\ calls[j].op = "metafield_delete"
       /\ \E n \in CallsOf("metafields_set") : n > i /\ n > j /\ calls[n].ok

\* the count calls made for the vendor of plan k
CountCallsOf(k) == {i \in 1..Len(calls) : calls[i].op \in CountOps /\ calls[i].vi = k}

\* the number of products the shop holds for the target of a count call
TrueCount(c) ==
  IF c.op = "rest_count_products_in_collection"
  THEN Len(CollectionProducts(GidPrefix \o c.arg))
  ELSE Cardinality({p \in Products : ProductVendor[p] = c.arg})

RECURSIVE SumOver(_, _)
SumOver(S, f) ==
  IF S = {} THEN 0 ELSE LET i == CHOOSE i \in S : TRUE IN f[i] + SumOver(S \ {i}, f)

\* C19 as stated: a dry-run vendor one of whose count calls failed is
\* reported with products_found = 0, will_write = 0 and will_delete = 0.
C19_FailedCountReportsZero ==
  dry_run =>
    \A k \in 1..Len(vendor_results) :
      (CountCallsOf(k) \cap FailedCalls # {}) =>
        /\ vendor_results[k].products_found = 0
        /\ vendor_results[k].will_write = 0
        /\ vendor_results[k].will_delete = 0

\* C19 amended: a failed count call never ends the dry run and counts as 0:
\* products_found is the sum of the counts of the vendor's count calls that
\* succeeded, so a vendor all of whose count calls failed is reported with
\* products_found = 0, will_write = 0 and will_delete = 0, like an empty
\* scope, and a vendor with several collections of which one count failed is
\* reported with the sum of the others.
C19_FailedCountAddsZero ==
  dry_run =>
    /\ pc # "crashed"
    /\ \A k \in 1..Len(vendor_results) :
         LET r == vendor_results[k]
             good == CountCallsOf(k) \ FailedCalls
         IN /\ r.products_found = SumOver(good, [i \in good |-> TrueCount(calls[i])])
            /\ good = {} =>
                 (r.products_found = 0 /\ r.will_write = 0 /\ r.will_delete = 0)

\* a dry run has summarised a vendor with two collections: the count of one
\* failed, and the vendor is reported with the two products of the other
C19_Witness ==
  /\ dry_run /\ pc = "done"
  /\ \E k \in 1..Len(vendor_results) :
       /\ Cardinality(CountCallsOf(k)) = 2
       /\ Cardinality(CountCallsOf(k) \cap FailedCalls) = 1
       /\ vendor_results[k].products_found = 2
       /\ vendor_results[k].will_write = 2

\* C20: unless DB_ONLY is on, a run whose shop host or access token is
\* missing (unset or blank) stops at require_env: it reads no row and makes
\* no remote call; a run with DB_ONLY on makes no remote call at all and
\* leaves the shop as it was.
C20_ConfigErrorBeforeRemote ==
  /\ (~db_only /\ (SHOPIFY_SHOP = <<>> \/ SHOPIFY_TOKEN = <<>>)) =>
       /\ pc \in {"init", "config_error"}
       /\ calls = <<>> /\ rows = <<>> /\ vendor_plans = <<>>
  /\ pc = "config_error" => (~db_only /\ calls = <<>>)
  /\ db_only =>
       /\ calls = <<>>
       /\ pc \in {"init", "start", "fetched", "done_nothing", "done_db_only"}
       /\ store \in {NoMetafields, StaleMetafields}

\* a run with the shop host set and the token missing has stopped at
\* require_env although the table holds rows
C20_Witness ==
  /\ pc = "config_error" /\ ~db_only
  /\ SHOPIFY_SHOP # <<>> /\ SHOPIFY_TOKEN = <<>>
  /\ db_table # <<>>

\* a run with DB_ONLY on and no credentials has printed its plans
C20_WitnessDbOnly ==
  /\ pc = "done_db_only" /\ SHOPIFY_SHOP = <<>> /\ SHOPIFY_TOKEN = <<>>
  /\ vendor_plans # <<>>

-----------------------------------------------------------------------------
(* Properties of the scope resolution and of the filter feeding main() *)

ScopeCalls == {i \in 1..Len(calls) : calls[i].op \in CountOps \cup ListOps}

\* C24: within one run no remote count or product-enumeration call is made
\* twice for the same vendor and the same collection or vendor name: in live
\* mode each collection of a vendor is enumerated at most once.
C24_ScopeResolvedOnce ==
  \A i, j \in ScopeCalls :
    (calls[i].op = calls[j].op /\ calls[i].arg = calls[j].arg /\ calls[i].vi = calls[j].vi)
      => i = j

\* the vendors that have a row passing the active-today filter
ActiveVendors ==
  {Strip(db_table[i].Vendor) :
     i \in {j \in 1..Len(db_table) :
               /\ SqlActive(db_table[j], today, SALE_PRE_DAYS, PI_PRE_DAYS, PI_POST_DAYS)
               /\ Readable(db_table[j])}}

C29_OpenEndedPiHasNoEndKey ==
  (LiveRunComplete /\ pc = "done") =>
    \A k \in 1..Len(vendor_plans) :
      LET w == vendor_plans[k] IN
      (PiShouldExist(w, today) /\ w.pi_real_end = None) =>
        \A p \in SeqToSet(ScopeProductIds(w)) : store[p][MF_PI_END] = None

-----------------------------------------------------------------------------
(* Properties of a run whose scope resolution fails (SpecFault) *)

\* the per-product calls
ProductOps == {"metafields_set", "get_metafield_ids", "metafield_delete"}

\* the index in rows of the first row of vendor v
FirstRowOf(v) == SetMin({i \in 1..Len(rows) : rows[i].vendor = v})

\* C30: in live mode a failed enumeration of product ids is not caught: the
\* run ends there, nothing is done afterwards (no product of that vendor or
\* of a later one is reconciled, no totals), and the step that fails leaves
\* the store and the counters as the earlier vendors left them; in a dry run
\* no remote failure ends the run and the summary holds exactly one entry per
\* plan, in the order the vendors are first seen in the rows.
C30_ScopeFailureEndsLiveRun ==
  /\ [](EnumerationFailed => (~dry_run /\ pc = "crashed"))
  /\ [](pc = "crashed" =>
          \A i \in 1..Len(calls) : calls[i].op \in ProductOps => calls[i].vi < vi)
  /\ [][pc = "crashed" => FALSE]_vars
  /\ [][pc' = "crashed" =>
          /\ store' = store /\ updated_products' = updated_products
          /\ deleted_metafields' = deleted_metafields]_vars
  /\ [](dry_run => pc # "crashed")
  /\ []((dry_run /\ pc = "done") =>
          /\ Len(vendor_results) = Len(vendor_plans)
          /\ \A k \in 1..Len(vendor_plans) :
               vendor_results[k].vendor = vendor_plans[k].vendor
          /\ \A j, k \in 1..Len(vendor_plans) :
               j < k => FirstRowOf(vendor_plans[j].vendor) < FirstRowOf(vendor_plans[k].vendor))

\* the enumeration for the second vendor failed after the products of the
\* first vendor had been written
C30_Witness ==
  /\ ~dry_run /\ pc = "crashed" /\ vi = 2 /\ updated_products > 0
  /\ \E i \in CallsOf("metafields_set") : calls[i].ok /\ calls[i].vi = 1
  /\ ~calls[Len(calls)].ok /\ calls[Len(calls)].op \in ListOps /\ calls[Len(calls)].vi = 2

\* a dry run reached its summary of two vendors although two count calls failed
C30_WitnessDryRun ==
  /\ dry_run /\ pc = "done" /\ failures = 2 /\ Len(vendor_results) = 2

-----------------------------------------------------------------------------
(* SpecClient: one call of a ShopifyClient method, made through graphql *)

\* `first: 250` of the listing queries: the page size, scaled down
PageSize == 2

\* the most nodes a listing of the shop holds
MaxProducts == 3

Node(id, vendor) == [id |-> id, vendor |-> vendor]
ShopNodes == {Node(p, ProductVendor[p]) : p \in Products}

\* the listings the shop can hold for a scope: its nodes, each once
ProductLists ==
  {q \in UNION {[1..n -> ShopNodes] : n \in 0..MaxProducts} :
     \A i, j \in 1..Len(q) : q[i] = q[j] => i = j}

\* the connection the shop answers to `products(first: PageSize, after: c)`
\* over the listing q: a cursor is the position of the last node of its page
PageAfter(q, c) ==
  LET start == IF c = None THEN 0 ELSE Val(c)
      stop  == Min2(start + PageSize, Len(q))
      nodes == SubSeq(q, start + 1, stop)
  IN [nodes |-> nodes,
      pageInfo |-> [hasNextPage |-> stop < Len(q),
                    endCursor |-> IF nodes = <<>> THEN None ELSE Some(stop)]]

NodeIds(nodes) == [i \in 1..Len(nodes) |-> nodes[i].id]

\* the nodes list_product_ids_by_vendor keeps (src lines 461-463)
VendorMatches(n, vendor) == Normalize(n.vendor) = Normalize(vendor)
MatchingIds(nodes, vendor) ==
  NodeIds(SelectSeq(nodes, LAMBDA n : VendorMatches(n, vendor)))

\* a deviating variant: the ids of a page replace those of the pages before
IdsAfterPageLastOnly(acc, page) == page

\* ids.extend(...) / ids.append(...) over one page
IdsAfterPage(acc, page) == acc \o page

\* the titles of the collections of the shop
Title      == <<"B","i","g"," ","S","a","l","e">>
TitleVar   == <<" ","b","i","g"," "," ","S","A","L","E">>
TitleLong  == <<"B","i","g"," ","S","a","l","e"," ","2">>
TitleAsked == <<"b","i","g"," ","s","a","l","e"," ">>

CollectionNode(id, title) == [id |-> id, title |-> title]
CollExact == CollectionNode("c1", Title)
CollVar   == CollectionNode("c2", TitleVar)
CollLong  == CollectionNode("c3", TitleLong)

\* what a collections(first: 20, query: ...) search can answer
TitleReplies ==
  {<<>>, <<CollExact>>, <<CollVar>>, <<CollLong>>, <<CollLong, CollVar>>,
   <<CollLong, CollExact, CollVar>>}

\* the query strings of find_collection_by_title_exact (src lines 370, 375)
QuotedQuery(title)   == <<"t","i","t","l","e",":","\"">> \o title \o <<"\"">>
UnquotedQuery(title) == <<"t","i","t","l","e",":">> \o title

\* a deviating variant: titles are compared as they are written
TitleMatchesRaw(n, title) == n.title = title

\* normalize(n.get("title", "")) == target (src lines 372, 377)
TitleMatches(n, title) == Normalize(n.title) = Normalize(title)

\* the first node of a reply with the requested title, as (id, title)
FirstMatch(nodes, title) ==
  LET hits == SelectSeq(nodes, LAMBDA n : TitleMatches(n, title))
  IN IF hits = <<>> THEN None ELSE Some(<<hits[1].id, hits[1].title>>)

\* a deviating variant: userErrors are not looked at
UserErrorsIgnored(errs) == FALSE

\* `if errs: raise RuntimeError(...)` (src lines 480-482, 520-522)
UserErrorsRaise(errs) == errs # <<>>

Mutations == {"metafields_set", "metafield_delete"}
Listings  == {"list_product_ids_in_collection", "list_product_ids_by_vendor"}
FindName  == "find_collection_by_title_exact"

\* the failures of requests.post taken for a method call: a transport
\* failure, a transient status, a GraphQL "errors" payload
ClientFailures == {Exception, Response(503, "text"), Response(200, "errors")}

\* a 200 response whose JSON holds the data `c`
DataResponse(c) ==
  [kind |-> "response", status |-> 200, body |-> "data", content |-> c]

\* the data the shop answers to the request the method is waiting for
Answer ==
  IF method.name = "metafields_set"
  THEN [metafieldsSet |-> [userErrors |-> remote.user_errors]]
  ELSE IF method.name = "metafield_delete"
  THEN [metafieldDelete |-> [userErrors |-> remote.user_errors]]
  ELSE IF method.name = "list_product_ids_in_collection"
  THEN [collection |-> IF remote.collection
                       THEN Some([products |-> PageAfter(remote.products, cursor)])
                       ELSE None]
  ELSE IF method.name = "list_product_ids_by_vendor"
  THEN [products |-> PageAfter(remote.products, cursor)]
  ELSE [collections |->
          [nodes |-> IF gql_calls = <<>> THEN remote.quoted ELSE remote.unquoted]]

\* the variables of the graphql call the method is waiting for
RequestVars ==
  IF method.name \in Mutations THEN method.arg
  ELSE IF method.name \in Listings THEN cursor
  ELSE IF gql_calls = <<>> THEN QuotedQuery(method.arg) ELSE UnquotedQuery(method.arg)

\* the data graphql has returned
Reply == http_log[Len(http_log)].content

\* a call of self.graphql(...) begins, with the default retries
StartGraphql ==
  /\ retries' = DefaultRetries /\ attempt' = 0 /\ last_err' = None
  /\ gql_pc' = "loop" /\ gql_result' = None /\ http_log' = <<>> /\ sleeps' = <<>>

counterVars == <<vendor_counts, total_products, progress_file, kills>>

\* main() stands where it calls the method; the method has made its first
\* graphql call
ClientStart(name, arg, at, prods, pend) ==
  /\ SALE_PRE_DAYS = 5 /\ PI_PRE_DAYS = 15 /\ PI_POST_DAYS = 5
  /\ rows = <<>> /\ idx = 0 /\ by_vendor = <<>>
  /\ retries = DefaultRetries /\ attempt = 0 /\ last_err = None /\ gql_pc = "loop"
  /\ gql_result = None /\ http_log = <<>> /\ sleeps = <<>>
  /\ SHOPIFY_SHOP = Strip(<<"s",".","m","y","s","h","o","p","i","f","y",".","c","o","m">>)
  /\ SHOPIFY_TOKEN = <<"s","h","p","a","t","_","1">>
  /\ today = Jun12 /\ dry_run = FALSE /\ db_only = FALSE /\ db_table = <<>>
  /\ fault_budget = 0
  /\ pc = at /\ vendor_plans = <<>> /\ vi = 0
  /\ sale_should_exist = FALSE /\ pi_should_exist = FALSE
  /\ product_cache = <<>> /\ vendor_results = <<>>
  /\ product_ids = prods /\ pj = Len(prods) /\ pending = pend
  /\ updated_products = 0 /\ deleted_metafields = 0
  /\ store \in {NoMetafields, StaleMetafields}
  /\ run = 1 /\ calls = <<>> /\ created = {} /\ store_after_first = NoMetafields
  /\ failures = 0
  /\ method = [name |-> name, arg |-> arg] /\ m_pc = "await"
  /\ cursor = None /\ has_next = TRUE /\ m_ids = <<>> /\ gql_calls = <<>>
  /\ m_result = None
  /\ vendor_counts = <<>> /\ total_products = 0 /\ progress_file = <<>> /\ kills = 0

InitClient ==
  \/ /\ ClientStart("metafields_set",
                    <<BuildDateMetafield("p1", MF_NAMESPACE, MF_SALE_START, Jun10),
                      BuildDateMetafield("p1", MF_NAMESPACE, MF_SALE_END, Jun20)>>,
                    "product", <<"p1">>, <<>>)
     /\ \E e \in {<<>>, <<"value is invalid">>} :
          remote = [NoRemote EXCEPT !.user_errors = e]
  \/ /\ ClientStart("metafield_delete", MetafieldId("p1", MF_PI_START),
                    "delete", <<"p1">>, <<MetafieldId("p1", MF_PI_START)>>)
     /\ \E e \in {<<>>, <<"not found">>} :
          remote = [NoRemote EXCEPT !.user_errors = e]
  \/ /\ ClientStart("list_product_ids_in_collection", Coll1, "enumerate", <<>>, <<>>)
     /\ \/ remote = NoRemote
        \/ \E q \in ProductLists :
             remote = [NoRemote EXCEPT !.products = q, !.collection = TRUE]
  \/ /\ ClientStart("list_product_ids_by_vendor", Acme, "enumerate", <<>>, <<>>)
     /\ \E q \in ProductLists : remote = [NoRemote EXCEPT !.products = q]
  \/ /\ \E t \in {Title, TitleAsked} :
          ClientStart(FindName, t, "idle", <<>>, <<>>)
     /\ \E a, b \in TitleReplies :
          remote = [NoRemote EXCEPT !.quoted = a, !.unquoted = b]

\* one iteration of the for loop of graphql within the method's call; a
\* mutation the shop accepts takes effect with the response
ClientAttempt ==
  /\ m_pc = "await" /\ gql_pc = "loop"
  /\ AttemptsLeft(attempt, retries)
  /\ \/ \E r \in ClientFailures : GqlTry(r) /\ store' = store
     \/ /\ GqlTry(DataResponse(Answer))
        /\ store' = IF method.name \in Mutations /\ remote.user_errors = <<>>
                    THEN IF method.name = "metafields_set"
                         THEN ApplySet(store, method.arg)
                         ELSE ApplyDelete(store, method.arg)
                    ELSE store
  /\ UNCHANGED <<retries, cfgVars, cliVars, aggVars, envVars, mainVars, histVars>>

\* graphql has raised after its retries: the method lets the error through
MethodRaised ==
  /\ m_pc = "await" /\ gql_pc = "raised"
  /\ gql_calls' = Append(gql_calls, [vars |-> RequestVars, ok |-> FALSE, reply |-> None])
  /\ m_pc' = "raised"
  /\ UNCHANGED <<cfgVars, aggVars, gqlVars, runVars, method, cursor, has_next, m_ids,
                 m_result, remote, counterVars>>

\* metafields_set / metafield_delete after graphql has returned (src lines
\* 479-482, 519-522)
MutationResume ==
  /\ method.name \in Mutations
  /\ m_pc = "await" /\ gql_pc = "returned"
  /\ LET data == Reply
         errs == IF method.name = "metafields_set"
                 THEN data.metafieldsSet.userErrors
                 ELSE data.metafieldDelete.userErrors
     IN /\ gql_calls' = Append(gql_calls,
                               [vars |-> RequestVars, ok |-> TRUE, reply |-> Some(data)])
        /\ IF UserErrorsRaise(errs)
           THEN m_pc' = "raised" /\ m_result' = m_result
           ELSE m_pc' = "returned" /\ m_result' = Some(None)
  /\ UNCHANGED <<cfgVars, aggVars, gqlVars, runVars, method, cursor, has_next, m_ids,
                 remote, counterVars>>

\* one pass of `while has_next` of list_product_ids_in_collection after
\* graphql has returned (src lines 398-408)
ListInCollectionResume ==
  /\ method.name = "list_product_ids_in_collection"
  /\ m_pc = "await" /\ gql_pc = "returned"
  /\ LET data == Reply IN
     /\ gql_calls' = Append(gql_calls,
                            [vars |-> RequestVars, ok |-> TRUE, reply |-> Some(data)])
     /\ IF data.collection = None
        THEN /\ m_pc' = "returned" /\ m_result' = Some(m_ids)
             /\ UNCHANGED <<m_ids, has_next, cursor, gqlVars>>
        ELSE LET conn == Val(data.collection).products IN
             /\ m_ids' = IdsAfterPage(m_ids, NodeIds(conn.nodes))
             /\ has_next' = conn.pageInfo.hasNextPage
             /\ cursor' = conn.pageInfo.endCursor
             /\ IF conn.pageInfo.hasNextPage
                THEN StartGraphql /\ UNCHANGED <<m_pc, m_result>>
                ELSE /\ m_pc' = "returned" /\ m_result' = Some(m_ids')
                     /\ UNCHANGED gqlVars
  /\ UNCHANGED <<cfgVars, aggVars, runVars, method, remote, counterVars>>

\* one pass of `while has_next` of list_product_ids_by_vendor after graphql
\* has returned (src lines 457-468)
ListByVendorResume ==
  /\ method.name = "list_product_ids_by_vendor"
  /\ m_pc = "await" /\ gql_pc = "returned"
  /\ LET data == Reply
         conn == data.products
     IN /\ gql_calls' = Append(gql_calls,
                               [vars |-> RequestVars, ok |-> TRUE, reply |-> Some(data)])
        /\ m_ids' = IdsAfterPage(m_ids, MatchingIds(conn.nodes, method.arg))
        /\ has_next' = conn.pageInfo.hasNextPage
        /\ cursor' = conn.pageInfo.endCursor
        /\ IF conn.pageInfo.hasNextPage
           THEN StartGraphql /\ UNCHANGED <<m_pc, m_result>>
           ELSE /\ m_pc' = "returned" /\ m_result' = Some(m_ids')
                /\ UNCHANGED gqlVars
  /\ UNCHANGED <<cfgVars, aggVars, runVars, method, remote, counterVars>>

\* find_collection_by_title_exact after one of its two queries has returned
\* (src lines 370-380)
FindResume ==
  /\ method.name = FindName
  /\ m_pc = "await" /\ gql_pc = "returned"
  /\ LET data  == Reply
         found == FirstMatch(data.collections.nodes, method.arg)
     IN /\ gql_calls' = Append(gql_calls,
                               [vars |-> RequestVars, ok |-> TRUE, reply |-> Some(data)])
        /\ IF found # None
           THEN m_pc' = "returned" /\ m_result' = Some(found) /\ UNCHANGED gqlVars
           ELSE IF gql_calls = <<>>
           THEN StartGraphql /\ UNCHANGED <<m_pc, m_result>>
           ELSE m_pc' = "returned" /\ m_result' = Some(None) /\ UNCHANGED gqlVars
  /\ UNCHANGED <<cfgVars, aggVars, runVars, method, cursor, has_next, m_ids, remote,
                 counterVars>>

\* the collection is deleted in the shop while its products are listed
CollectionVanishes ==
  /\ method.name = "list_product_ids_in_collection"
  /\ m_pc = "await" /\ remote.collection /\ gql_calls # <<>>
  /\ remote' = [remote EXCEPT !.collection = FALSE]
  /\ UNCHANGED <<cfgVars, aggVars, gqlVars, runVars, method, m_pc, cursor, has_next,
                 m_ids, gql_calls, m_result, counterVars>>

\* main() after the call: the try/except around metafields_set (src lines
\* 696-700) and metafield_delete (lines 714-718), the enumeration outside any
\* try (lines 668-677)
MainAfterMethod ==
  /\ m_pc \in {"returned", "raised"}
  /\ pc \in {"product", "delete", "enumerate"}
  /\ m_pc' = "done"
  /\ LET ok == m_pc = "returned" IN
     IF pc = "product"
     THEN /\ pc' = AfterCall(method.name, ok, "lookup")
          /\ updated_products' = IF ok THEN updated_products + 1 ELSE updated_products
          /\ UNCHANGED <<vi, pj, pending, product_ids, deleted_metafields>>
     ELSE IF pc = "delete"
     THEN /\ deleted_metafields' = IF ok THEN deleted_metafields + 1
                                   ELSE deleted_metafields
          /\ pending' = Tail(pending)
          /\ IF AfterCall(method.name, ok, "on") = "crashed"
             THEN pc' = "crashed" /\ UNCHANGED <<vi, pj>>
             ELSE IF Tail(pending) = <<>> THEN NextProduct ELSE UNCHANGED <<pc, vi, pj>>
          /\ UNCHANGED <<product_ids, updated_products>>
     ELSE /\ IF AfterCall(method.name, ok, "on") = "crashed"
             THEN pc' = "crashed" /\ UNCHANGED <<vi, pj, product_ids>>
             ELSE /\ product_ids' = Val(m_result)
                  /\ IF Val(m_result) = <<>>
                     THEN pj' = pj /\ NextVendor
                     ELSE pj' = 1 /\ pc' = "product" /\ vi' = vi
          /\ UNCHANGED <<pending, updated_products, deleted_metafields>>
  /\ UNCHANGED <<cfgVars, aggVars, gqlVars, envVars, store, histVars, vendor_plans,
                 sale_should_exist, pi_should_exist, product_cache, vendor_results,
                 method, cursor, has_next, m_ids, gql_calls, m_result, remote,
                 counterVars>>

NextClient ==
  \/ ClientAttempt
  \/ GqlExhausted
  \/ MethodRaised
  \/ MutationResume
  \/ ListInCollectionResume
  \/ ListByVendorResume
  \/ FindResume
  \/ CollectionVanishes
  \/ MainAfterMethod

SpecClient == InitClient /\ [][NextClient]_vars

-----------------------------------------------------------------------------
(* SpecCount: tools/resilient_vendor_count.py over one progress file *)

\* how often the script is started, and how often it is forcibly terminated
MaxCountRuns == 3
MaxKills == 2

\* a product without a vendor name
BlankNode == Node("p0", <<" ">>)

\* what the shop holds while it is counted
CountShops ==
  ProductLists \cup {Append(q, BlankNode) : q \in {l \in ProductLists : Len(l) < MaxProducts}}

\* vendor_counts.get(v, 0)
GetCount(counts, v) == IF v \in DOMAIN counts THEN counts[v] ELSE 0

\* the for loop over the nodes of a page (src lines 55-59), on vendor_counts
RECURSIVE CountVendors(_, _)
CountVendors(counts, nodes) ==
  IF nodes = <<>> THEN counts
  ELSE LET v == Strip(Head(nodes).vendor) IN
       CountVendors(IF v # <<>>
                    THEN [w \in DOMAIN counts \cup {v} |->
                            IF w = v THEN GetCount(counts, v) + 1 ELSE counts[w]]
                    ELSE counts,
                    Tail(nodes))

\* the content of the progress file: what save_progress dumps, or what a
\* write cut short leaves (json.load fails on it)
Snapshot(c, counts, total, done) ==
  [cursor |-> c, vendor_counts |-> counts, total_products |-> total, done |-> done,
   torn |-> FALSE]
TornFile == [cursor |-> None, vendor_counts |-> <<>>, total_products |-> 0,
             done |-> FALSE, torn |-> TRUE]

\* load_progress (src lines 18-25): {} when the file is missing or unreadable
LoadProgress(file) ==
  IF file = None \/ Val(file).torn THEN Snapshot(None, <<>>, 0, FALSE) ELSE Val(file)

\* the script has not been started yet; the progress file does not exist
InitCount ==
  /\ SALE_PRE_DAYS = 5 /\ PI_PRE_DAYS = 15 /\ PI_POST_DAYS = 5
  /\ rows = <<>> /\ idx = 0 /\ by_vendor = <<>>
  /\ GqlIdle
  /\ SHOPIFY_SHOP = Strip(<<"s",".","m","y","s","h","o","p","i","f","y",".","c","o","m">>)
  /\ SHOPIFY_TOKEN = <<"s","h","p","a","t","_","1">>
  /\ today = 0 /\ dry_run = TRUE /\ db_only = TRUE /\ db_table = <<>>
  /\ fault_budget = 1
  /\ pc = "idle" /\ vendor_plans = <<>> /\ vi = 0
  /\ sale_should_exist = FALSE /\ pi_should_exist = FALSE
  /\ product_cache = <<>> /\ vendor_results = <<>> /\ product_ids = <<>>
  /\ pj = 0 /\ pending = <<>> /\ updated_products = 0 /\ deleted_metafields = 0
  /\ store = NoMetafields
  /\ run = 1 /\ calls = <<>> /\ created = {} /\ store_after_first = NoMetafields
  /\ failures = 0
  /\ method = [name |-> "resilient_vendor_count", arg |-> <<>>] /\ m_pc = "start"
  /\ cursor = None /\ has_next = FALSE /\ m_ids = <<>> /\ gql_calls = <<>>
  /\ m_result = None
  /\ \E q \in CountShops : remote = [NoRemote EXCEPT !.products = q]
  /\ vendor_counts = <<>> /\ total_products = 0 /\ progress_file = None /\ kills = 0

countFrame == <<cfgVars, aggVars, gqlVars, envVars, mainVars, store, calls, created,
                store_after_first, method, m_ids, gql_calls, m_result, remote>>

\* main() up to the loop (src lines 37-48)
CountStart ==
  /\ m_pc = "start"
  /\ LET progress == LoadProgress(progress_file) IN
     /\ cursor' = progress.cursor
     /\ vendor_counts' = progress.vendor_counts
     /\ total_products' = progress.total_products
     /\ has_next' = TRUE
     /\ m_pc' = IF progress.cursor = None /\ progress.done THEN "already" ELSE "loop"
  /\ UNCHANGED <<countFrame, run, failures, progress_file, kills>>

\* one pass of `while has_next` in which graphql returns a page (src lines
\* 52-71): the page is counted and the progress saved
CountPage ==
  /\ m_pc = "loop"
  /\ LET conn == PageAfter(remote.products, cursor) IN
     /\ total_products' = total_products + Len(conn.nodes)
     /\ vendor_counts' = CountVendors(vendor_counts, conn.nodes)
     /\ has_next' = conn.pageInfo.hasNextPage
     /\ cursor' = conn.pageInfo.endCursor
     /\ progress_file' = Some(Snapshot(cursor', vendor_counts', total_products', FALSE))
     /\ m_pc' = IF conn.pageInfo.hasNextPage THEN "loop" ELSE "finish"
  /\ UNCHANGED <<countFrame, run, failures, kills>>

\* one pass in which graphql raises after its retries (src lines 73-76): the
\* script sleeps and asks the same page again
CountPageFails ==
  /\ m_pc = "loop"
  /\ failures < fault_budget
  /\ failures' = failures + 1
  /\ UNCHANGED <<countFrame, run, m_pc, cursor, has_next, vendor_counts, total_products,
                 progress_file, kills>>

\* after the loop (src lines 78-90): the final progress is saved
CountFinish ==
  /\ m_pc = "finish"
  /\ progress_file' = Some(Snapshot(cursor, vendor_counts, total_products, TRUE))
  /\ m_pc' = "completed"
  /\ UNCHANGED <<countFrame, run, failures, cursor, has_next, vendor_counts,
                 total_products, kills>>

\* the process is forcibly terminated: its locals are gone; the progress
\* file stays as it is, or is left cut short when a save was under way
CountKilled ==
  /\ m_pc \in {"loop", "finish"}
  /\ kills < MaxKills
  /\ kills' = kills + 1
  /\ m_pc' = "dead"
  /\ cursor' = None /\ has_next' = FALSE /\ vendor_counts' = <<>> /\ total_products' = 0
  /\ \/ progress_file' = progress_file
     \/ progress_file # None /\ progress_file' = Some(TornFile)
  /\ UNCHANGED <<countFrame, run, failures>>

\* the script is started again
CountRestart ==
  /\ m_pc \in {"dead", "completed", "already"}
  /\ run < MaxCountRuns
  /\ run' = run + 1
  /\ m_pc' = "start"
  /\ cursor' = None /\ has_next' = FALSE /\ vendor_counts' = <<>> /\ total_products' = 0
  /\ UNCHANGED <<countFrame, failures, progress_file, kills>>

NextCount ==
  \/ CountStart
  \/ CountPage
  \/ CountPageFails
  \/ CountFinish
  \/ CountKilled
  \/ CountRestart

SpecCount == InitCount /\ [][NextCount]_vars

-----------------------------------------------------------------------------
(* Properties of the resilient vendor counter (SpecCount) *)

\* the products on the pages up to cursor c
UpTo(c) == SubSeq(remote.products, 1, IF c = None THEN 0 ELSE Val(c))

\* the counts of a list of products, vendor by vendor
TrueVendorCounts(q) ==
  LET names == {Strip(q[i].vendor) : i \in 1..Len(q)} \ {<<>>}
  IN [v \in names |-> Cardinality({i \in 1..Len(q) : Strip(q[i].vendor) = v})]

\* C25: every progress snapshot written pairs its cursor with the vendor
\* counts and the product total of exactly the products on the pages up to
\* that cursor (a final snapshot: of all products), and a run that completes,
\* resumed or not, has counted every product exactly once.
C25_SnapshotsMatchCursor ==
  /\ (progress_file # None /\ ~Val(progress_file).torn) =>
       LET f == Val(progress_file)
           counted == IF f.done THEN remote.products ELSE UpTo(f.cursor)
       IN /\ f.total_products = Len(counted)
          /\ f.vendor_counts = TrueVendorCounts(counted)
  /\ m_pc \in {"completed", "already"} =>
       /\ total_products = Len(remote.products)
       /\ vendor_counts = TrueVendorCounts(remote.products)

-----------------------------------------------------------------------------
(* Properties of the ShopifyClient methods (SpecClient) *)

\* the responses of the current graphql call that report userErrors
UserErrorsOf(r) ==
  IF method.name = "metafields_set" THEN r.content.metafieldsSet.userErrors
  ELSE r.content.metafieldDelete.userErrors
ReportsUserErrors(r) == r.body = "data" /\ UserErrorsOf(r) # <<>>

\* what main() does after a mutation that raised: the set step is over and
\* the lookup of the same product is next; the delete is over and the loop
\* has moved on
MainWentOn ==
  IF method.name = "metafields_set"
  THEN pc = "lookup" /\ pj = 1 /\ product_ids = <<"p1">>
  ELSE pc = "done" /\ pending = <<>>

\* C21 as stated: when the response to metafields_set (or metafield_delete)
\* reports userErrors, the call has made exactly one HTTP request.
C21_UserErrorsOneRequest ==
  method.name \in Mutations =>
    \A i \in 1..Len(http_log) : ReportsUserErrors(http_log[i]) => Len(http_log) = 1

\* C21, amended: a response that reports userErrors is the last HTTP request
\* of the call and no sleep follows it (it is the only request unless
\* retried failures came before it); the method raises, nothing is counted in
\* updated_products or deleted_metafields, and main() goes on with the next
\* step of the product.
C21_UserErrorsNotRetried ==
  method.name \in Mutations =>
    \A i \in 1..Len(http_log) :
      ReportsUserErrors(http_log[i]) =>
        /\ i = Len(http_log)
        /\ Len(sleeps) = i - 1
        /\ \A j \in 1..(i - 1) : ~IsSuccess(http_log[j])
        /\ gql_pc = "returned"
        /\ m_pc \in {"await", "raised", "done"}
        /\ m_result = None
        /\ updated_products = 0 /\ deleted_metafields = 0
        /\ m_pc = "done" => MainWentOn

\* metafields_set was answered with userErrors after a retried 503: two
\* HTTP requests, nothing counted, main() at the lookup of the product
C21_Witness ==
  /\ method.name = "metafields_set" /\ m_pc = "done"
  /\ Len(http_log) = 2 /\ http_log[1].status = 503
  /\ ReportsUserErrors(http_log[2])
  /\ updated_products = 0 /\ pc = "lookup"

\* the connection of the i-th graphql call of a listing, None when the
\* response holds no collection
ReplyPage(i) ==
  LET d == Val(gql_calls[i].reply) IN
  IF method.name = "list_product_ids_in_collection"
  THEN IF d.collection = None THEN None ELSE Some(Val(d.collection).products)
  ELSE Some(d.products)

\* the first page is asked with a null cursor, every later page with the
\* endCursor of the page before, which reported hasNextPage
CursorChain ==
  /\ \A i \in 1..Len(gql_calls) :
       IF i = 1 THEN gql_calls[i].vars = None
       ELSE /\ gql_calls[i - 1].ok /\ ReplyPage(i - 1) # None
            /\ Val(ReplyPage(i - 1)).pageInfo.hasNextPage
            /\ gql_calls[i].vars = Val(ReplyPage(i - 1)).pageInfo.endCursor
  /\ m_pc = "await" =>
       cursor = IF gql_calls = <<>> THEN None
                ELSE Val(ReplyPage(Len(gql_calls))).pageInfo.endCursor

\* C22 as stated: the enumeration stops exactly when a page reports
\* hasNextPage = false and returns the ids of all pages in page order; a
\* failed page request raises and returns nothing.
C22_AllPagesInOrder ==
  method.name \in Listings =>
    /\ CursorChain
    /\ m_result # None =>
         LET n == Len(gql_calls) IN
         /\ n > 0 /\ gql_calls[n].ok /\ ReplyPage(n) # None
         /\ ~Val(ReplyPage(n)).pageInfo.hasNextPage
         /\ Val(m_result) = Concat([i \in 1..n |-> NodeIds(Val(ReplyPage(i)).nodes)])
    /\ m_pc = "raised" => m_result = None

\* the ids the method keeps of the i-th reply
KeptIds(i) ==
  IF ReplyPage(i) = None THEN <<>>
  ELSE IF method.name = "list_product_ids_by_vendor"
  THEN MatchingIds(Val(ReplyPage(i)).nodes, method.arg)
  ELSE NodeIds(Val(ReplyPage(i)).nodes)

\* C22, amended: the enumeration asks the first page with a null cursor and
\* each later page with the endCursor of the page before; it stops when a
\* page reports hasNextPage = false or, for a collection, when a response
\* holds no collection, and then returns what it has gathered; it returns,
\* in page order, the ids of the nodes of every page asked (by vendor: of the
\* nodes whose normalized vendor is the normalized requested one), which is
\* the whole listing when no response lacked the collection; a page request
\* that fails after its retries raises, nothing is returned, and main() ends.
C22_PagesInOrderUpToFilter ==
  method.name \in Listings =>
    /\ CursorChain
    /\ m_result # None =>
         LET n == Len(gql_calls) IN
         /\ n > 0 /\ \A i \in 1..n : gql_calls[i].ok
         /\ \/ ReplyPage(n) = None /\ method.name = "list_product_ids_in_collection"
            \/ ReplyPage(n) # None /\ ~Val(ReplyPage(n)).pageInfo.hasNextPage
         /\ Val(m_result) = Concat([i \in 1..n |-> KeptIds(i)])
         /\ (method.name = "list_product_ids_in_collection" /\ ReplyPage(n) # None) =>
              Val(m_result) = NodeIds(remote.products)
         /\ method.name = "list_product_ids_by_vendor" =>
              Val(m_result) = MatchingIds(remote.products, method.arg)
    /\ \A i \in 1..Len(gql_calls) :
         ~gql_calls[i].ok =>
           /\ i = Len(gql_calls) /\ m_pc \in {"raised", "done"} /\ m_result = None
           /\ m_pc = "done" => pc = "crashed"
    /\ (m_pc = "await" /\ gql_calls # <<>>) =>
         Val(ReplyPage(Len(gql_calls))).pageInfo.hasNextPage

\* a collection of three products has been listed in two pages
C22_Witness ==
  /\ method.name = "list_product_ids_in_collection" /\ m_pc = "returned"
  /\ Len(gql_calls) = 2 /\ gql_calls[2].vars = Some(PageSize)
  /\ Len(Val(m_result)) = 3 /\ Val(m_result) = NodeIds(remote.products)

\* the vendor listing dropped a node of its two pages
C22_WitnessFiltered ==
  /\ method.name = "list_product_ids_by_vendor" /\ m_pc = "returned"
  /\ Len(gql_calls) = 2 /\ Len(remote.products) = 3
  /\ Len(Val(m_result)) < Len(remote.products)

\* the collection vanished after its first page: the ids of that page were
\* returned
C22_WitnessVanished ==
  /\ method.name = "list_product_ids_in_collection" /\ m_pc = "returned"
  /\ Len(gql_calls) = 2 /\ ReplyPage(2) = None /\ Len(Val(m_result)) = PageSize

\* a reply holds a collection with the requested title
ExactIn(nodes) ==
  \E i \in 1..Len(nodes) : Normalize(nodes[i].title) = Normalize(method.arg)

\* the second query has been issued
SecondIssued == Len(gql_calls) >= 2 \/ (Len(gql_calls) = 1 /\ m_pc = "await")

\* C26: the lookup returns a collection only if its normalized title is the
\* normalized requested title; the unquoted second query is issued exactly
\* when the quoted first query succeeded and held no exact match; the lookup
\* returns null exactly when neither reply holds an exact match.
C26_ExactTitleLookup ==
  method.name = FindName =>
    /\ (m_result # None /\ Val(m_result) # None) =>
         LET hit == Val(Val(m_result)) IN
         /\ Normalize(hit[2]) = Normalize(method.arg)
         /\ \E nodes \in {remote.quoted, remote.unquoted} :
              \E i \in 1..Len(nodes) : hit = <<nodes[i].id, nodes[i].title>>
    /\ gql_calls # <<>> =>
         /\ gql_calls[1].vars = QuotedQuery(method.arg)
         /\ SecondIssued <=> (gql_calls[1].ok /\ ~ExactIn(remote.quoted))
    /\ Len(gql_calls) >= 2 => gql_calls[2].vars = UnquotedQuery(method.arg)
    /\ Len(gql_calls) <= 2
    /\ m_result # None =>
         (Val(m_result) = None <=> (~ExactIn(remote.quoted) /\ ~ExactIn(remote.unquoted)))

\* the quoted query held only a longer title; the unquoted one held the
\* requested title in another spelling, which was returned
C26_Witness ==
  /\ method.name = FindName /\ method.arg = TitleAsked /\ m_pc = "returned"
  /\ Len(gql_calls) = 2 /\ remote.quoted = <<CollLong>>
  /\ m_result = Some(Some(<<"c2", TitleVar>>))

====
